---- MODULE Spec2Model ----
(***************************************************************************)
(* A model of the Rush shell's tree-walking executor (src/parser/exec.rs)  *)
(* and of the Context it runs on (src/parser/vars.rs), driven by the       *)
(* read-execute loop of the shell (src/main.rs).                           *)
(*                                                                         *)
(* Strings are sequences of one-character strings.  A Variable is a record *)
(* tagged by t: String (s), I32 (n) or Array (a).  An AST node is a record *)
(* tagged by type, with the field names of the Rust structs of ast.rs.     *)
(*                                                                         *)
(* exec() of every node is a recursive operator that threads the world w   *)
(* (the Context, the operating system's answers still to come, and the     *)
(* history of process events) and hands back the node as exec left it:     *)
(* exec takes &mut self, and Vec<CommandValue>::exec removes the first     *)
(* element of the command it runs.                                         *)
(***************************************************************************)
EXTENDS Integers, Sequences, FiniteSets

VARIABLES scopes, exports, break_num, continue_num, pc, tree, res, build, lex

vars == <<scopes, exports, break_num, continue_num, pc, tree, res, build, lex>>

(***************************************************************************)
(* Bounds of the model.                                                    *)
(***************************************************************************)
\* the largest number of spawn attempts one call of exec_tree may make
MaxSpawns == 5
\* the largest depth of the scope stack (scopes leak, see exec of if/while)
MaxScopes == 2
\* exit codes of a spawned process are 0..MaxExitCode
MaxExitCode == 1

(***************************************************************************)
(* Strings and Variables (vars.rs)                                         *)
(***************************************************************************)
Digits == <<"0", "1", "2", "3", "4", "5", "6", "7", "8", "9">>

DigitVal(ch) == (CHOOSE i \in 1..10 : Digits[i] = ch) - 1

IsDigit(ch) == \E i \in 1..10 : Digits[i] = ch

\* the largest value of a u16 (break_num: u16, and the parse target of break)
U16Max == 65535

RECURSIVE ParseDigits(_, _)
\* the digits of str read most significant first on top of acc; -1 when a
\* character is no digit or the value leaves u16
ParseDigits(str, acc) ==
    IF str = <<>> THEN acc
    ELSE IF ~IsDigit(Head(str)) THEN -1
    ELSE IF acc * 10 + DigitVal(Head(str)) > U16Max THEN -1
    ELSE ParseDigits(Tail(str), acc * 10 + DigitVal(Head(str)))

\* a faulty parse: a number with a sign is not taken
ParseU16Unsigned(str) == IF str = <<>> THEN -1 ELSE ParseDigits(str, 0)

\* str.parse::<u16>(): an optional '+', then at least one digit; -1 is Err
ParseU16(str) ==
    LET body == IF str # <<>> /\ Head(str) = "+" THEN Tail(str) ELSE str
    IN  IF body = <<>> THEN -1 ELSE ParseDigits(body, 0)

RECURSIVE NatToStr(_)
\* i32::to_string for the non-negative numbers the model holds
NatToStr(n) ==
    IF n < 10 THEN <<Digits[n + 1]>>
    ELSE NatToStr(n \div 10) \o <<Digits[(n % 10) + 1]>>

VString(s) == [t |-> "String", s |-> s]

VI32(n) == [t |-> "I32", n |-> n]

VArray(a) == [t |-> "Array", a |-> a]

RECURSIVE to_string(_)
RECURSIVE JoinStrings(_, _)
\* the elements of an array, stringified, with one space between two
JoinStrings(a, i) ==
    IF i > Len(a) THEN <<>>
    ELSE to_string(a[i]) \o (IF i < Len(a) THEN <<" ">> ELSE <<>>) \o JoinStrings(a, i + 1)

\* Display for Variable
to_string(v) ==
    CASE v.t = "String" -> v.s
      [] v.t = "I32" -> NatToStr(v.n)
      [] v.t = "Array" -> IF Len(v.a) = 1 THEN to_string(v.a[1]) ELSE JoinStrings(v.a, 1)

EnvPrefix == <<"e", "n", "v", ":", ":">>

StartsWith(str, p) == Len(str) >= Len(p) /\ SubSeq(str, 1, Len(p)) = p

RECURSIVE StripAll(_, _)
\* str.replace(p, ""): every occurrence of p removed, left to right
StripAll(str, p) ==
    IF Len(str) < Len(p) THEN str
    ELSE IF SubSeq(str, 1, Len(p)) = p THEN StripAll(SubSeq(str, Len(p) + 1, Len(str)), p)
    ELSE <<Head(str)>> \o StripAll(Tail(str), p)

(***************************************************************************)
(* Context (vars.rs).  A world w carries the Context's fields scopes,      *)
(* exports, break_num, continue_num, and beside them: oracle, the answers  *)
(* of the operating system to the spawn attempts still to come; trace, the *)
(* history of process events; nchild, the number of children spawned.      *)
(***************************************************************************)
EmptyMap == [k \in {} |-> VI32(0)]

\* a faulty insert: a key that is bound keeps its old value
MapInsertIfAbsent(m, key, val) == [k \in DOMAIN m \cup {key} |-> IF k \in DOMAIN m THEN m[k] ELSE val]

MapInsert(m, key, val) == [k \in DOMAIN m \cup {key} |-> IF k = key THEN val ELSE m[k]]

\* func holds the names of the functions the scope defines
NewScope == [vars |-> EmptyMap, func |-> {}]

add_scope(w) == [w EXCEPT !.scopes = Append(@, NewScope)]

pop_scope(w) == [w EXCEPT !.scopes = IF @ = <<>> THEN @ ELSE SubSeq(@, 1, Len(@) - 1)]

\* a faulty lookup: the scopes searched without .rev(), outermost first
ScopeOfOutermost(scps, name) ==
    LET hit == {i \in 1..Len(scps) : name \in DOMAIN scps[i].vars}
    IN  IF hit = {} THEN 0 ELSE CHOOSE i \in hit : \A j \in hit : i <= j

\* the innermost scope that binds name, 0 when none does
ScopeOf(scps, name) ==
    LET hit == {i \in 1..Len(scps) : name \in DOMAIN scps[i].vars}
    IN  IF hit = {} THEN 0 ELSE CHOOSE i \in hit : \A j \in hit : j <= i

\* a faulty lookup: only the innermost scope is searched
HasVarInnermostOnly(w, name) ==
    IF StartsWith(name, EnvPrefix) THEN StripAll(name, EnvPrefix) \in DOMAIN w.exports
    ELSE name \in DOMAIN w.scopes[Len(w.scopes)].vars

HasVar(w, name) ==
    IF StartsWith(name, EnvPrefix) THEN StripAll(name, EnvPrefix) \in DOMAIN w.exports
    ELSE ScopeOf(w.scopes, name) # 0

\* Context::get_var, where HasVar
get_var(w, name) ==
    IF StartsWith(name, EnvPrefix) THEN w.exports[StripAll(name, EnvPrefix)]
    ELSE w.scopes[ScopeOf(w.scopes, name)].vars[name]

\* a faulty set_var: the binding written to the outermost scope
set_varOutermost(w, key, val) ==
    IF StartsWith(key, EnvPrefix)
    THEN LET k2 == StripAll(key, EnvPrefix)
         IN  [w EXCEPT !.exports = MapInsert(@, k2, VString(to_string(val))),
                       !.scopes[1].vars = MapInsert(@, key, val)]
    ELSE [w EXCEPT !.scopes[1].vars = MapInsert(@, key, val)]

\* Context::set_var (scopes.last_mut().unwrap(): the stack is not empty)
set_var(w, key, val) ==
    IF StartsWith(key, EnvPrefix)
    THEN LET k2 == StripAll(key, EnvPrefix)
         IN  [w EXCEPT !.exports = MapInsert(@, k2, VString(to_string(val))),
                       !.scopes[Len(w.scopes)].vars = MapInsert(@, key, val)]
    ELSE [w EXCEPT !.scopes[Len(w.scopes)].vars = MapInsert(@, key, val)]

QuestionMark == <<"?">>

\* Context::get_last_exit_code: -1 is None
get_last_exit_code(w) ==
    IF HasVar(w, QuestionMark) /\ get_var(w, QuestionMark).t = "I32"
    THEN get_var(w, QuestionMark).n
    ELSE -1

(***************************************************************************)
(* Processes (std::process::Command and Child).  A Command under           *)
(* construction is [some, name, args, stdin, stdout]: stdin is 0 when      *)
(* inherited and p when it is the stdout pipe of child p; stdout is        *)
(* "inherit" or "piped".  None is the Option::None of exec's result.       *)
(***************************************************************************)
None == [some |-> FALSE]

\* Command::new(name) with its args
NewCommand(name, args) ==
    [some |-> TRUE, name |-> name, args |-> args, stdin |-> 0, stdout |-> "inherit"]

ExitCodes == 0..MaxExitCode

\* what the operating system may answer to one spawn attempt
Outcomes == {[spawned |-> FALSE, code |-> 0]} \cup {[spawned |-> TRUE, code |-> c] : c \in ExitCodes}

\* one entry of the history, stamped with break_num and the scope depth
Ev(op, cmd, pid, code, w) ==
    [op |-> op, name |-> cmd.name, args |-> cmd.args, stdin |-> cmd.stdin,
     stdout |-> cmd.stdout, pid |-> pid, code |-> code,
     bn |-> w.break_num, depth |-> Len(w.scopes)]

Log(w, e) == [w EXCEPT !.trace = Append(@, e)]

\* Command::spawn: k is "ok" (a Child pid that will exit with code), "fail"
\* (io::Error) or "starved" (the run needs one more answer than it was given)
Spawn(cmd, w) ==
    LET Answer(o, w1) ==
            IF ~o.spawned
            THEN [k |-> "fail", pid |-> 0, code |-> 0, w |-> Log(w1, Ev("spawn_err", cmd, 0, 0, w1))]
            ELSE [k |-> "ok", pid |-> w1.nchild + 1, code |-> o.code,
                  w |-> Log([w1 EXCEPT !.nchild = @ + 1], Ev("spawn", cmd, w1.nchild + 1, o.code, w1))]
    IN  IF w.oracle = <<>> THEN [k |-> "starved", pid |-> 0, code |-> 0, w |-> w]
        ELSE Answer(Head(w.oracle), [w EXCEPT !.oracle = Tail(@)])

\* Child::wait of the child Spawn handed back
Wait(cmd, s) == Log(s.w, Ev("wait", cmd, s.pid, s.code, s.w))

NewLine == "\n"

RECURSIVE JoinArgs(_, _)
JoinArgs(args, i) ==
    IF i > Len(args) THEN <<>>
    ELSE args[i] \o (IF i < Len(args) THEN <<" ">> ELSE <<>>) \o JoinArgs(args, i + 1)

\* what a child writes to its stdout: echo writes its arguments and a
\* newline, every other program of the model writes nothing
ProcessStdout(cmd) ==
    IF cmd.name = <<"e", "c", "h", "o">> THEN JoinArgs(cmd.args, 1) \o <<NewLine>> ELSE <<>>

(***************************************************************************)
(* The executor (exec.rs).  exec of an expression hands back               *)
(* [k, cmd, node, w]: k is "ok" (Ok(cmd)), "err" (an Err the ? operator    *)
(* passes up), "panic" (unwrap on None, todo!) or "starved"; cmd is the    *)
(* Option<Command>; node is the expression as exec left it.  get of a      *)
(* value hands back [k, val, node, w].  Inside a handler, a local operator *)
(* names the rest of the handler after one of its steps, its parameters    *)
(* being the results of the steps before.                                  *)
(***************************************************************************)
NoNode == [type |-> "none"]

R(k, cmd, node, w) == [k |-> k, cmd |-> cmd, node |-> node, w |-> w]

Fail(k, w) == R(k, None, NoNode, w)

V(k, val, node, w) == [k |-> k, val |-> val, node |-> node, w |-> w]

VFail(k, w) == V(k, VString(<<>>), NoNode, w)

(***************************************************************************)
(* The native functions (nativeFunctions.rs).  A native function takes the *)
(* world and the argument Variables and hands back [k, val, node, w] like  *)
(* the get of a value: k is "ok" or "err" (bail!).                         *)
(***************************************************************************)
Whitespace == {" ", "\n", "\t", "\r"}

RECURSIVE TrimStart(_)
TrimStart(str) ==
    IF str # <<>> /\ Head(str) \in Whitespace THEN TrimStart(Tail(str)) ELSE str

RECURSIVE TrimEnd(_)
TrimEnd(str) ==
    IF str # <<>> /\ str[Len(str)] \in Whitespace THEN TrimEnd(SubSeq(str, 1, Len(str) - 1))
    ELSE str

\* str::trim
Trim(str) == TrimEnd(TrimStart(str))

variables_to_string(args) == JoinStrings(args, 1)

rush_trim(w, args) == V("ok", VString(Trim(variables_to_string(args))), NoNode, w)

rush_test(w, args) ==
    IF Len(args) # 3 THEN VFail("err", w)
    ELSE IF args[2].t # "String" THEN VFail("err", w)
    ELSE IF args[2].s = <<"=">>
         THEN V("ok", VI32(IF to_string(args[1]) = to_string(args[3]) THEN 0 ELSE 1), NoNode, w)
    ELSE IF args[2].s = <<"!", "=">>
         THEN V("ok", VI32(IF to_string(args[1]) # to_string(args[3]) THEN 0 ELSE 1), NoNode, w)
    ELSE VFail("err", w)

rush_true(w, args) == V("ok", VI32(0), NoNode, w)

rush_false(w, args) == V("ok", VI32(1), NoNode, w)

rush_export(w, args) ==
    LET Name(name) ==
            IF Len(args) = 1
            THEN IF HasVar(w, name)
                 THEN V("ok", VI32(0), NoNode,
                        [w EXCEPT !.exports = MapInsert(@, name, get_var(w, name))])
                 ELSE V("ok", VI32(1), NoNode, w)
            ELSE V("ok", VI32(0), NoNode, set_var(w, name, args[3]))
    IN  IF Len(args) # 1 /\ Len(args) # 3 THEN VFail("err", w)
        ELSE Name(to_string(args[1]))

rush_typeof(w, args) ==
    IF Len(args) # 1 THEN VFail("err", w)
    ELSE V("ok",
           VString(CASE args[1].t = "String" -> <<"s", "t", "r", "i", "n", "g">>
                     [] args[1].t = "I32" -> <<"i", "3", "2">>
                     [] args[1].t = "Array" -> <<"a", "r", "r", "a", "y">>),
           NoNode, w)

\* the keys of the map get_native_functions returns
get_native_functions ==
    {<<"$", "t", "r", "i", "m">>, <<"t", "e", "s", "t">>, <<"t", "r", "u", "e">>,
     <<"f", "a", "l", "s", "e">>, <<"e", "x", "p", "o", "r", "t">>,
     <<"t", "y", "p", "e", "o", "f">>}

\* (func.func)(ctx, args) of the native function registered under key
CallNative(key, w, args) ==
    CASE key = <<"$", "t", "r", "i", "m">> -> rush_trim(w, args)
      [] key = <<"t", "e", "s", "t">> -> rush_test(w, args)
      [] key = <<"t", "r", "u", "e">> -> rush_true(w, args)
      [] key = <<"f", "a", "l", "s", "e">> -> rush_false(w, args)
      [] key = <<"e", "x", "p", "o", "r", "t">> -> rush_export(w, args)
      [] key = <<"t", "y", "p", "e", "o", "f">> -> rush_typeof(w, args)

\* Context::get_func: "UserDefined", "Native" or "None"; native_func is the
\* map of get_native_functions from the start of the shell on
get_func(w, key) ==
    IF \E i \in 1..Len(w.scopes) : key \in w.scopes[i].func THEN "UserDefined"
    ELSE IF key \in get_native_functions THEN "Native"
    ELSE "None"

RECURSIVE ExecExpr(_, _)
RECURSIVE GetValue(_, _)
RECURSIVE GetList(_, _, _, _)
RECURSIVE SubLoop(_, _, _, _)
RECURSIVE GetArgs(_, _, _, _)
RECURSIVE VecLoop(_, _, _, _)
RECURSIVE WhileLoop(_, _, _)

\* Command::output (exec.rs:125): stdout captured, the child spawned and
\* waited on; a spawn failure is the Err that with_context passes up
Output(cmd, w) ==
    LET Spawned(c, s) ==
            IF s.k = "starved" THEN [k |-> "starved", out |-> <<>>, w |-> s.w]
            ELSE IF s.k = "fail" THEN [k |-> "err", out |-> <<>>, w |-> s.w]
            ELSE [k |-> "ok", out |-> ProcessStdout(c), w |-> Wait(c, s)]
        Piped(c) == Spawned(c, Spawn(c, w))
    IN  Piped([cmd EXCEPT !.stdout = "piped"])

\* Value::Expressions: the body of a command substitution, from its i-th
\* expression on; out is the output collected so far
SubLoop(list, i, out, w) ==
    LET Captured(list1, o) ==
            IF o.k # "ok" THEN VFail(o.k, o.w)
            ELSE SubLoop(list1, i + 1, out \o o.out, o.w)
        Ran(r) ==
            IF r.k # "ok" THEN VFail(r.k, r.w)
            ELSE IF ~r.cmd.some THEN SubLoop([list EXCEPT ![i] = r.node], i + 1, out, r.w)
            ELSE Captured([list EXCEPT ![i] = r.node], Output(r.cmd, r.w))
    IN  IF i > Len(list) THEN V("ok", out, list, w)
        ELSE Ran(ExecExpr(list[i], w))

\* Value::Values | Value::ArrayDefinition, from the i-th element on
GetList(vec, i, out, w) ==
    LET Got(r) ==
            IF r.k # "ok" THEN VFail(r.k, r.w)
            ELSE GetList([vec EXCEPT ![i] = r.node], i + 1, Append(out, r.val), r.w)
    IN  IF i > Len(vec) THEN V("ok", out, vec, w)
        ELSE Got(GetValue(vec[i], w))

\* GetValue for Value
GetValue(v, w) ==
    LET Sub(l) ==
            IF l.k # "ok" THEN VFail(l.k, l.w)
            ELSE V("ok", VString(l.val), [v EXCEPT !.list = l.node], pop_scope(l.w))
        List(l) ==
            IF l.k # "ok" THEN VFail(l.k, l.w)
            ELSE V("ok", VArray(l.val), [v EXCEPT !.vec = l.node], l.w)
        Applied(l, r) ==
            IF r.k # "ok" THEN VFail(r.k, r.w)
            ELSE V("ok", r.val, [v EXCEPT !.args = l.node], r.w)
        Found(l, func) ==
            IF func = "None" THEN VFail("err", l.w)
            ELSE IF func = "UserDefined" THEN VFail("panic", l.w)
            ELSE Applied(l, CallNative(v.name, l.w, l.val))
        Call(l) ==
            IF l.k # "ok" THEN VFail(l.k, l.w)
            ELSE Found(l, get_func(l.w, v.name))
    IN  CASE v.type = "Literal" -> V("ok", VString(v.str), v, w)
          [] v.type = "Variable" ->
                V("ok", IF HasVar(w, v.name) THEN get_var(w, v.name) ELSE VString(<<>>), v, w)
          [] v.type = "ArrayVariable" ->
                V("ok", IF HasVar(w, v.name) THEN get_var(w, v.name) ELSE VArray(<<>>), v, w)
          [] v.type = "Expressions" -> Sub(SubLoop(v.list, 1, <<>>, add_scope(w)))
          [] v.type \in {"Values", "ArrayDefinition"} -> List(GetList(v.vec, 1, <<>>, w))
          [] v.type = "ValueFunction" -> Call(GetList(v.args, 1, <<>>, w))

\* GetValue for CommandValue: Value(val) is val itself, Var is "Var"
GetCommandValue(cv, w) ==
    IF cv.type = "Var" THEN VFail("err", w) ELSE GetValue(cv, w)

\* the for loop of Vec<CommandValue>::exec: out is the arguments so far
GetArgs(vals, i, out, w) ==
    LET Got(r) ==
            IF r.k # "ok" THEN VFail(r.k, r.w)
            ELSE GetArgs([vals EXCEPT ![i] = r.node], i + 1, Append(out, to_string(r.val)), r.w)
    IN  IF i > Len(vals) THEN V("ok", out, vals, w)
        ELSE Got(GetCommandValue(vals[i], w))

\* ExecExpression for Vec<CommandValue>
ExecCommand(e, w) ==
    LET Built(rest, cmd) ==
            R("ok", cmd, [e EXCEPT !.vals = rest.node], Log(rest.w, Ev("new", cmd, 0, 0, rest.w)))
        Args(first, rest) ==
            IF rest.k # "ok" THEN Fail(rest.k, rest.w)
            ELSE Built(rest, NewCommand(to_string(first.val), rest.val))
        First(first) ==
            IF first.k # "ok" THEN Fail(first.k, first.w)
            ELSE Args(first, GetArgs(Tail(e.vals), 1, <<>>, first.w))
    IN  IF w.break_num > 0 THEN R("ok", None, e, w)
        ELSE IF e.vals = <<>> THEN Fail("err", w)
        ELSE First(GetCommandValue(Head(e.vals), w))

\* ExecExpression for BreakExpression
ExecBreak(e, w) ==
    LET Set(node, val, num, w1) ==
            R("ok", None, [e EXCEPT !.num = node], Log(w1, Ev("break", NewCommand(val, <<>>), 0, num, w1)))
        Parsed(v, val, num) ==
            IF num = -1 THEN Fail("err", v.w)
            ELSE Set(v.node, val, num, [v.w EXCEPT !.break_num = IF num = 0 THEN 1 ELSE num])
        Str(v, val) == Parsed(v, val, IF val # <<>> THEN ParseU16(val) ELSE 1)
        Got(v) == IF v.k # "ok" THEN Fail(v.k, v.w) ELSE Str(v, to_string(v.val))
    IN  IF w.break_num > 0 THEN R("ok", None, e, [w EXCEPT !.break_num = @ - 1])
        ELSE Got(GetValue(e.num, w))

\* ExecExpression for Vec<Expression>, from the i-th expression on
VecLoop(es, i, last, w) ==
    LET Ran(r) ==
            IF r.k # "ok" THEN Fail(r.k, r.w)
            ELSE IF r.w.break_num > 0 THEN R("ok", r.cmd, [es EXCEPT ![i] = r.node], r.w)
            ELSE VecLoop([es EXCEPT ![i] = r.node], i + 1, r.cmd, r.w)
    IN  IF i > Len(es) THEN R("ok", last, es, w)
        ELSE Ran(ExecExpr(es[i], w))

\* ExecExpression for Vec<Expression>
ExecVec(es, w) ==
    IF w.break_num > 0 THEN R("ok", None, es, w) ELSE VecLoop(es, 1, None, w)

\* Expression::Expressions(expr) => expr.exec(ctx)
ExecExpressions(e, w) ==
    LET Ran(r) == IF r.k # "ok" THEN r ELSE [r EXCEPT !.node = [e EXCEPT !.list = r.node]]
    IN  Ran(ExecVec(e.list, w))

\* the loop of ExecExpression for WhileExpression; node is the body
WhileLoop(condition, contents, w) ==
    LET Body(b) ==
            IF b.k # "ok" THEN Fail(b.k, b.w)
            ELSE IF b.w.break_num > 0 THEN R("ok", b.cmd, b.node, [b.w EXCEPT !.break_num = @ - 1])
            ELSE WhileLoop(condition, b.node, b.w)
        Waited(s, w1) ==
            IF s.code # 0 THEN R("ok", condition, contents, w1)
            ELSE Body(ExecVec(contents, w1))
        Spawned(s) ==
            IF s.k = "starved" THEN Fail("starved", s.w)
            ELSE IF s.k = "fail" THEN R("ok", condition, contents, s.w)
            ELSE Waited(s, Wait(condition, s))
    IN  Spawned(Spawn(condition, w))

\* ExecExpression for WhileExpression
ExecWhile(e, w) ==
    LET Looped(c, l) ==
            IF l.k # "ok" THEN Fail(l.k, l.w)
            ELSE R("ok", l.cmd, [e EXCEPT !.condition = c.node, !.contents = l.node], pop_scope(l.w))
        Cond(c) ==
            IF c.k # "ok" THEN Fail(c.k, c.w)
            ELSE IF ~c.cmd.some THEN Fail("err", c.w)
            ELSE Looped(c, WhileLoop(c.cmd, e.contents, add_scope(c.w)))
    IN  IF w.break_num > 0 THEN R("ok", None, e, [w EXCEPT !.break_num = @ - 1])
        ELSE Cond(ExecExpr(e.condition, w))

\* a faulty if: the body run when the condition fails, the else body when
\* it succeeds
ExecIfInverted(e, w) ==
    LET Then(c, b) ==
            IF b.k # "ok" THEN Fail(b.k, b.w)
            ELSE R("ok", b.cmd, [e EXCEPT !.condition = c.node, !.contents = b.node], pop_scope(b.w))
        Else(c, b) ==
            IF b.k # "ok" THEN Fail(b.k, b.w)
            ELSE R("ok", b.cmd, [e EXCEPT !.condition = c.node, !.else_contents = b.node], pop_scope(b.w))
        Waited(c, s, w1) ==
            IF s.code # 0 THEN Then(c, ExecVec(e.contents, w1))
            ELSE Else(c, ExecVec(e.else_contents, w1))
        Spawned(c, s) ==
            IF s.k = "starved" THEN Fail("starved", s.w)
            ELSE IF s.k = "fail" THEN Else(c, ExecVec(e.else_contents, s.w))
            ELSE Waited(c, s, Wait(c.cmd, s))
        Cond(c) ==
            IF c.k # "ok" THEN Fail(c.k, c.w)
            ELSE IF ~c.cmd.some THEN Fail("err", c.w)
            ELSE Spawned(c, Spawn(c.cmd, add_scope(c.w)))
    IN  IF w.break_num > 0 THEN R("ok", None, e, w)
        ELSE Cond(ExecExpr(e.condition, w))

\* ExecExpression for IfExpression
ExecIf(e, w) ==
    LET Then(c, b) ==
            IF b.k # "ok" THEN Fail(b.k, b.w)
            ELSE R("ok", b.cmd, [e EXCEPT !.condition = c.node, !.contents = b.node], pop_scope(b.w))
        Else(c, b) ==
            IF b.k # "ok" THEN Fail(b.k, b.w)
            ELSE R("ok", b.cmd, [e EXCEPT !.condition = c.node, !.else_contents = b.node], pop_scope(b.w))
        Waited(c, s, w1) ==
            IF s.code = 0 THEN Then(c, ExecVec(e.contents, w1))
            ELSE Else(c, ExecVec(e.else_contents, w1))
        Spawned(c, s) ==
            IF s.k = "starved" THEN Fail("starved", s.w)
            ELSE IF s.k = "fail" THEN Else(c, ExecVec(e.else_contents, s.w))
            ELSE Waited(c, s, Wait(c.cmd, s))
        Cond(c) ==
            IF c.k # "ok" THEN Fail(c.k, c.w)
            ELSE IF ~c.cmd.some THEN Fail("err", c.w)
            ELSE Spawned(c, Spawn(c.cmd, add_scope(c.w)))
    IN  IF w.break_num > 0 THEN R("ok", None, e, w)
        ELSE Cond(ExecExpr(e.condition, w))

\* ExecExpression for LetExpression
ExecLet(e, w) ==
    LET Val(key, val) ==
            IF val.k # "ok" THEN Fail(val.k, val.w)
            ELSE R("ok", None, [e EXCEPT !.key = key.node, !.value = val.node],
                   set_var(val.w, to_string(key.val), val.val))
        Key(key) == IF key.k # "ok" THEN Fail(key.k, key.w) ELSE Val(key, GetValue(e.value, key.w))
    IN  IF w.break_num > 0 THEN R("ok", None, e, w)
        ELSE Key(GetValue(e.key, w))

\* ExecExpression for RedirectTargetExpression
ExecRedirectTarget(e, w) ==
    LET Spawned(target, e1, s) ==
            IF s.k = "starved" THEN Fail("starved", s.w)
            ELSE IF s.k = "fail" THEN R("ok", target.cmd, e1, s.w)
            ELSE R("ok", [target.cmd EXCEPT !.stdin = s.pid], e1, s.w)
        Target(src, target) ==
            IF target.k # "ok" THEN Fail(target.k, target.w)
            ELSE IF ~target.cmd.some THEN Fail("panic", target.w)
            ELSE Spawned(target, [e EXCEPT !.source = src.node, !.target = target.node],
                         Spawn([src.cmd EXCEPT !.stdout = "piped"], target.w))
        Source(src) ==
            IF src.k # "ok" THEN Fail(src.k, src.w)
            ELSE IF ~src.cmd.some THEN Fail("panic", src.w)
            ELSE Target(src, ExecExpr(e.target, src.w))
    IN  IF w.break_num > 0 THEN R("ok", None, e, w)
        ELSE Source(ExecExpr(e.source, w))

\* ExecExpression for OrExpression
ExecOr(e, w) ==
    LET Second(first, second) ==
            IF second.k # "ok" THEN Fail(second.k, second.w)
            ELSE R("ok", second.cmd, [e EXCEPT !.first = first.node, !.second = second.node], second.w)
        Waited(first, s, w1) ==
            IF s.code = 0 THEN R("ok", first.cmd, [e EXCEPT !.first = first.node], w1)
            ELSE Second(first, ExecExpr(e.second, w1))
        Spawned(first, s) ==
            IF s.k = "starved" THEN Fail("starved", s.w)
            ELSE IF s.k = "fail" THEN Second(first, ExecExpr(e.second, s.w))
            ELSE Waited(first, s, Wait(first.cmd, s))
        First(first) ==
            IF first.k # "ok" THEN Fail(first.k, first.w)
            ELSE IF ~first.cmd.some THEN Fail("err", first.w)
            ELSE Spawned(first, Spawn(first.cmd, first.w))
    IN  IF w.break_num > 0 THEN R("ok", None, e, w)
        ELSE First(ExecExpr(e.first, w))

\* ExecExpression for AndExpression
ExecAnd(e, w) ==
    LET Second(first, second) ==
            IF second.k # "ok" THEN Fail(second.k, second.w)
            ELSE R("ok", second.cmd, [e EXCEPT !.first = first.node, !.second = second.node], second.w)
        Waited(first, s, w1) ==
            IF s.code # 0 THEN R("ok", first.cmd, [e EXCEPT !.first = first.node], w1)
            ELSE Second(first, ExecExpr(e.second, w1))
        Spawned(first, s) ==
            IF s.k = "starved" THEN Fail("starved", s.w)
            ELSE IF s.k = "fail" THEN R("ok", first.cmd, [e EXCEPT !.first = first.node], s.w)
            ELSE Waited(first, s, Wait(first.cmd, s))
        First(first) ==
            IF first.k # "ok" THEN Fail(first.k, first.w)
            ELSE IF ~first.cmd.some THEN Fail("err", first.w)
            ELSE Spawned(first, Spawn(first.cmd, first.w))
    IN  IF w.break_num > 0 THEN R("ok", None, e, w)
        ELSE First(ExecExpr(e.first, w))

\* Option<Expression>
NoExpr == [some |-> FALSE]

SomeExpr(e) == [some |-> TRUE, expr |-> e]

(***************************************************************************)
(* Files (std::fs::File).  The file system of the model has one directory  *)
(* that does not exist: a path into it can neither be created nor opened,  *)
(* every other path can.  A Command whose stdin is a file has stdin -1.    *)
(***************************************************************************)
MissingDir == "n"

\* does File::create(path) succeed
CanCreate(path) == path = <<>> \/ Head(path) # MissingDir

\* does File::open(path) succeed
CanOpen(path) == path = <<>> \/ Head(path) # MissingDir

\* the history entry of a file operation on path: code is 0 when it succeeded
FileEv(op, path, ok, w) ==
    [op |-> op, name |-> path, args |-> <<>>, stdin |-> 0, stdout |-> "inherit",
     pid |-> 0, code |-> IF ok THEN 0 ELSE 1, bn |-> w.break_num, depth |-> Len(w.scopes)]

\* ExecExpression for FileTargetExpression
ExecFileTarget(e, w) ==
    LET Spawned(cmd, e1, s) ==
            IF s.k = "starved" THEN Fail("starved", s.w)
            ELSE R("ok", cmd, e1, s.w)
        Created(cmd, e1, path, w1) ==
            IF ~CanCreate(path) THEN R("ok", cmd, e1, Log(w1, FileEv("create", path, FALSE, w1)))
            ELSE Spawned(cmd, e1, Spawn(cmd, Log(w1, FileEv("create", path, TRUE, w1))))
        Source(target, src) ==
            IF src.k # "ok" THEN Fail(src.k, src.w)
            ELSE IF ~src.cmd.some THEN Fail("err", src.w)
            ELSE Created([src.cmd EXCEPT !.stdout = "piped"],
                         [e EXCEPT !.target = target.node, !.source = SomeExpr(src.node)],
                         to_string(target.val), src.w)
        Target(target) ==
            IF target.k # "ok" THEN Fail(target.k, target.w)
            ELSE IF ~e.source.some THEN Fail("panic", target.w)
            ELSE Source(target, ExecExpr(e.source.expr, target.w))
    IN  IF w.break_num > 0 THEN R("ok", None, e, w)
        ELSE Target(GetValue(e.target, w))

\* the pager a `< file` without a command is read into
Less == <<"l", "e", "s", "s">>

\* ExecExpression for FileSourceExpression
ExecFileSource(e, w) ==
    LET Opened(cmd, e1, path, w1) ==
            IF ~CanOpen(path) THEN Fail("err", Log(w1, FileEv("open", path, FALSE, w1)))
            ELSE R("ok", [cmd EXCEPT !.stdin = -1], e1, Log(w1, FileEv("open", path, TRUE, w1)))
        Target(source, target, e1) ==
            IF target.k # "ok" THEN Fail(target.k, target.w)
            ELSE IF ~target.cmd.some THEN Fail("err", target.w)
            ELSE Opened(target.cmd, e1, to_string(source.val), target.w)
        Run(source, target) ==
            Target(source, target,
                   IF target.k # "ok" THEN e
                   ELSE [e EXCEPT !.source = source.node, !.target = SomeExpr(target.node)])
        Source(source) ==
            IF source.k # "ok" THEN Fail(source.k, source.w)
            ELSE IF ~e.target.some
                 THEN Opened(NewCommand(Less, <<>>), [e EXCEPT !.source = source.node],
                             to_string(source.val),
                             Log(source.w, Ev("new", NewCommand(Less, <<>>), 0, 0, source.w)))
            ELSE Run(source, ExecExpr(e.target.expr, source.w))
    IN  IF w.break_num > 0 THEN R("ok", None, e, w)
        ELSE Source(GetValue(e.source, w))

\* ExecExpression for Expression
ExecExpr(e, w) ==
    CASE e.type = "LetExpression" -> ExecLet(e, w)
      [] e.type = "Command" -> ExecCommand(e, w)
      [] e.type \in {"JobCommand", "Function", "ForExpression"} -> Fail("panic", w)
      [] e.type = "IfExpression" -> ExecIf(e, w)
      [] e.type = "WhileExpression" -> ExecWhile(e, w)
      [] e.type = "RedirectTargetExpression" -> ExecRedirectTarget(e, w)
      [] e.type = "FileTargetExpression" -> ExecFileTarget(e, w)
      [] e.type = "FileSourceExpression" -> ExecFileSource(e, w)
      [] e.type = "Expressions" -> ExecExpressions(e, w)
      [] e.type = "OrExpression" -> ExecOr(e, w)
      [] e.type = "AndExpression" -> ExecAnd(e, w)
      [] e.type = "BreakExpression" -> ExecBreak(e, w)

RECURSIVE TreeLoop(_, _, _)
\* the for loop of exec_tree, from the i-th expression on: [k, w]
TreeLoop(tr, i, w) ==
    LET Check(w1) ==
            IF w1.break_num > 0 THEN [k |-> "err", w |-> w1]
            ELSE TreeLoop(tr, i + 1, w1)
        Spawned(r, s) ==
            IF s.k = "starved" THEN [k |-> "starved", w |-> s.w]
            ELSE IF s.k = "fail" THEN Check(s.w)
            ELSE Check(set_var(Wait(r.cmd, s), QuestionMark, VI32(s.code)))
        Ran(r) ==
            IF r.k # "ok" THEN [k |-> r.k, w |-> r.w]
            ELSE IF ~r.cmd.some THEN Check(r.w)
            ELSE Spawned(r, Spawn(r.cmd, r.w))
    IN  IF i > Len(tr) THEN [k |-> "ok", w |-> w]
        ELSE Ran(ExecExpr(tr[i], w))

exec_tree(tr, w) == TreeLoop(tr, 1, w)

(***************************************************************************)
(* The programs the shell is given: trees as build_tree hands them to      *)
(* exec_tree.  Commands are named by one letter.                           *)
(***************************************************************************)
Lit(str) == [type |-> "Literal", str |-> str]

Variable(name) == [type |-> "Variable", name |-> name]

Values(vec) == [type |-> "Values", vec |-> vec]

Sub(list) == [type |-> "Expressions", list |-> list]

ValueFunction(name, args) == [type |-> "ValueFunction", name |-> name, args |-> args]

Command(vals) == [type |-> "Command", vals |-> vals]

\* the command of the single word ch
Cmd(ch) == Command(<<Lit(<<ch>>)>>)

\* `break` alone has the empty Values as its num (get_value at a CommandEnd)
Break(str) == [type |-> "BreakExpression", num |-> IF str = <<>> THEN Values(<<>>) ELSE Lit(str)]

While(c, body) == [type |-> "WhileExpression", condition |-> c, contents |-> body]

If(c, body, other) ==
    [type |-> "IfExpression", condition |-> c, contents |-> body, else_contents |-> other]

Let(key, value) == [type |-> "LetExpression", key |-> key, value |-> value]

And(a, b) == [type |-> "AndExpression", first |-> a, second |-> b]

Or(a, b) == [type |-> "OrExpression", first |-> a, second |-> b]

Pipe(a, b) == [type |-> "RedirectTargetExpression", source |-> a, target |-> b]

Group(list) == [type |-> "Expressions", list |-> list]

FileTarget(source, target) ==
    [type |-> "FileTargetExpression", source |-> source, target |-> target]

FileSource(source, target) ==
    [type |-> "FileSourceExpression", source |-> source, target |-> target]

For == [type |-> "ForExpression"]

SomeValue(v) == [some |-> TRUE, value |-> v]

\* the ForExpression parse_for builds; arg_key is None or SomeValue
ForOf(arg_key, arg_value, list, contents, else_contents) ==
    [type |-> "ForExpression", arg_key |-> arg_key, arg_value |-> arg_value, list |-> list,
     contents |-> contents, else_contents |-> else_contents]

\* the largest N of a `break N` and the deepest nest of while loops
MaxNest == 3

LoopNames == <<"a", "b", "c", "d">>

RECURSIVE Nest(_, _, _, _)
\* `break n` under while loops d..depth, the loop of depth i having the
\* condition LoopNames[i]; inIf puts the break in the body of `if t`
Nest(d, depth, n, inIf) ==
    IF d > depth
    THEN IF inIf THEN If(Cmd("t"), <<Break(NatToStr(n))>>, <<>>) ELSE Break(NatToStr(n))
    ELSE While(Cmd(LoopNames[d]), <<Nest(d + 1, depth, n, inIf)>>)

NestPrograms == {<<Nest(1, depth, n, inIf)>> : depth \in 1..MaxNest, n \in 1..MaxNest, inIf \in BOOLEAN}

BadBreak == Break(<<"x">>)

Statements ==
    { Cmd("a"), Command(<<Lit(<<"a">>), Lit(<<"x">>)>>),
      Break(<<>>), Break(<<"2">>), Break(<<"0">>), Break(<<"+", "2">>), BadBreak,
      Break(NatToStr(U16Max + 1)),
      If(Cmd("a"), <<Cmd("b"), Cmd("c")>>, <<Cmd("d")>>),
      If(Cmd("a"), <<Cmd("b")>>, <<Cmd("d")>>),
      If(Cmd("a"), <<BadBreak>>, <<>>),
      If(Cmd("a"), <<>>, <<BadBreak>>),
      While(Cmd("a"), <<BadBreak>>),
      While(Cmd("a"), <<Cmd("b")>>),
      While(Cmd("a"), <<Command(<<Lit(<<"b">>), Lit(<<"x">>)>>)>>),
      While(Cmd("a"), <<>>),
      While(Cmd("a"), <<Break(<<>>), Cmd("b")>>),
      While(Command(<<Lit(<<"a">>), Variable(<<"v">>)>>), <<Let(Lit(<<"v">>), Lit(<<"x">>))>>),
      Command(<<Lit(<<"a">>), Values(<<Lit(<<"f">>), Variable(<<"u">>), Lit(<<"g">>)>>)>>),
      Command(<<Lit(<<"a">>), Sub(<<Cmd("b")>>)>>),
      Command(<<Lit(<<"a">>), Sub(<<BadBreak>>)>>),
      And(Cmd("a"), Cmd("x")), Or(Cmd("a"), Cmd("x")),
      Pipe(Cmd("a"), Cmd("b")), Pipe(Cmd("a"), Pipe(Cmd("b"), Cmd("c"))),
      Group(<<Cmd("a"), Cmd("b")>>),
      For }

Programs ==
    {<<st>> : st \in Statements} \cup NestPrograms
    \cup {<<Cmd("a"), Cmd("b")>>, <<Break(<<>>), Cmd("a")>>}

(***************************************************************************)
(* The shell session (main.rs, Shell::start): a line is read and built     *)
(* into a tree, exec_tree runs it on the session's Context, the result is  *)
(* reported, and the loop goes on.  A panic (todo!, unwrap on None) ends   *)
(* the process: pc is "aborted".  The environment of the operating system  *)
(* that start copies into exports before each line is taken to be empty.   *)
(* A call of exec_tree makes MaxSpawns spawn attempts at most and leaves   *)
(* MaxScopes scopes at most; res keeps the history of the call.            *)
(***************************************************************************)
NoRes == [status |-> "none", trace |-> <<>>, pre_depth |-> 0, pre_bn |-> 0]

\* no text is being lexed
NoLex ==
    [status |-> "none", text |-> <<>>, i |-> 0, quote_active |-> FALSE,
     double_quote_active |-> FALSE, escape_active |-> FALSE, buf |-> <<>>,
     tokens |-> <<>>, skipper |-> 0]

\* no tree is being built
NoBuild == [status |-> "none", tokens |-> <<>>, i |-> 0, expressions |-> <<>>]

World ==
    [scopes |-> scopes, exports |-> exports, break_num |-> break_num,
     continue_num |-> continue_num, oracle |-> <<>>, trace |-> <<>>, nchild |-> 0]

RECURSIVE Runs(_, _, _)
\* the completed runs of exec_tree on tr from w whose spawn attempts are
\* answered by answers and then by any further answers, MaxSpawns at most
Runs(tr, w, answers) ==
    LET Ran(r) ==
            IF r.k # "starved" THEN {r}
            ELSE IF Len(answers) >= MaxSpawns THEN {}
            ELSE UNION {Runs(tr, w, Append(answers, o)) : o \in Outcomes}
    IN  Ran(exec_tree(tr, [w EXCEPT !.oracle = answers]))

Init ==
    /\ scopes = <<NewScope>>
    /\ exports = EmptyMap
    /\ break_num = 0
    /\ continue_num = 0
    /\ pc = "prompt"
    /\ tree = <<>>
    /\ res = NoRes
    /\ build = NoBuild
    /\ lex = NoLex

\* Shell::collect and the build of the tree
Collect ==
    /\ pc = "prompt"
    /\ tree' \in Programs
    /\ pc' = "exec"
    /\ UNCHANGED <<scopes, exports, break_num, continue_num, res, build, lex>>

\* exec_tree(tree, &mut ctx)
Exec ==
    /\ pc = "exec"
    /\ \E r \in Runs(tree, World, <<>>) :
          /\ Len(r.w.scopes) <= MaxScopes
          /\ scopes' = r.w.scopes
          /\ exports' = r.w.exports
          /\ break_num' = r.w.break_num
          /\ continue_num' = r.w.continue_num
          /\ res' = [status |-> r.k, trace |-> r.w.trace,
                     pre_depth |-> Len(scopes), pre_bn |-> break_num]
          /\ pc' = IF r.k = "panic" THEN "aborted" ELSE "report"
    /\ UNCHANGED <<tree, build, lex>>

\* if let Err(err) = res { eprintln!(..) }, and the loop goes on
Report ==
    /\ pc = "report"
    /\ pc' = "prompt"
    /\ tree' = <<>>
    /\ res' = NoRes
    /\ UNCHANGED <<scopes, exports, break_num, continue_num, build, lex>>

Next == Collect \/ Exec \/ Report

Spec == Init /\ [][Next]_vars

(***************************************************************************)
(* A session of lines with a redirection to or from a file (`a > path`,    *)
(* `a < path`, `> path`, `< path`), and of lines whose commands are joined *)
(* by `&&` or `||` or stand in a while loop.                               *)
(***************************************************************************)
Paths == {<<"f">>, <<MissingDir, "/", "f">>}

WriteTo(path) == FileTarget(SomeExpr(Cmd("a")), Lit(path))

ReadFrom(path) == FileSource(Lit(path), SomeExpr(Cmd("a")))

FilePrograms ==
    {<<WriteTo(path)>> : path \in Paths}
    \cup {<<ReadFrom(path)>> : path \in Paths}
    \cup {<<FileTarget(NoExpr, Lit(path))>> : path \in Paths}
    \cup {<<FileSource(Lit(path), NoExpr)>> : path \in Paths}
    \cup {<<WriteTo(path), Cmd("b")>> : path \in Paths}
    \cup {<<And(Cmd("a"), Cmd("b"))>>, <<Or(Cmd("a"), Cmd("b"))>>,
          <<While(Cmd("a"), <<Cmd("b")>>)>>}

\* Shell::collect and the build of the tree
CollectFile ==
    /\ pc = "prompt"
    /\ tree' \in FilePrograms
    /\ pc' = "exec"
    /\ UNCHANGED <<scopes, exports, break_num, continue_num, res, build, lex>>

NextFile == CollectFile \/ Exec \/ Report

SpecFile == Init /\ [][NextFile]_vars

(***************************************************************************)
(* A session of lines that bind the variable x (`let x = v`) and of lines  *)
(* that bind r to the result of a function call (`let r = $name(args)`).   *)
(* The calls are those of the built-ins under the name the parser builds   *)
(* for a call, "$" + n, with arguments the built-in accepts; a call of a   *)
(* function nobody defines; and calls of export under the name it is       *)
(* registered with, with zero to four arguments.                           *)
(***************************************************************************)
Builtins ==
    {<<"t", "r", "i", "m">>, <<"t", "e", "s", "t">>, <<"t", "r", "u", "e">>,
     <<"f", "a", "l", "s", "e">>, <<"e", "x", "p", "o", "r", "t">>,
     <<"t", "y", "p", "e", "o", "f">>}

\* the name parse_string_or_array_func_call gives the call of n
Dollar(n) == <<"$">> \o n

X == <<"x">>

Result == <<"r">>

\* arguments the built-in n accepts
GoodArgs(n) ==
    CASE n = <<"t", "r", "i", "m">> -> <<Lit(<<" ", "s", " ">>)>>
      [] n = <<"t", "e", "s", "t">> -> <<Lit(<<"a">>), Lit(<<"=">>), Lit(<<"a">>)>>
      [] n = <<"t", "r", "u", "e">> -> <<>>
      [] n = <<"f", "a", "l", "s", "e">> -> <<>>
      [] n = <<"e", "x", "p", "o", "r", "t">> -> <<Lit(X)>>
      [] n = <<"t", "y", "p", "e", "o", "f">> -> <<Variable(X)>>

LetOf(name, value) == Let(Values(<<Lit(name)>>), value)

CallLine(name, args) == <<LetOf(Result, ValueFunction(name, args))>>

ExportValues == {<<"a">>, <<"b">>}

ExportArgs ==
    {<<>>, <<Lit(X)>>, <<Lit(X), Lit(<<"=">>)>>, <<Lit(X), Lit(<<"=">>), Lit(<<"a">>), Lit(<<"b">>)>>}
    \cup {<<Lit(X), Lit(<<"=">>), Lit(v)>> : v \in ExportValues}

ExportLine(args) == CallLine(<<"e", "x", "p", "o", "r", "t">>, args)

NativePrograms ==
    {<<LetOf(X, Lit(v))>> : v \in ExportValues}
    \cup {CallLine(Dollar(n), GoodArgs(n)) : n \in Builtins}
    \cup {CallLine(Dollar(<<"n", "o">>), <<>>)}
    \cup {ExportLine(args) : args \in ExportArgs}

\* Shell::collect and the build of the tree
CollectNative ==
    /\ pc = "prompt"
    /\ tree' \in NativePrograms
    /\ pc' = "exec"
    /\ UNCHANGED <<scopes, exports, break_num, continue_num, res, build, lex>>

NextNative == CollectNative \/ Exec \/ Report

SpecNative == Init /\ [][NextNative]_vars

(***************************************************************************)
(* A session of lines that set and read the variable x: `let x = "s"` and  *)
(* then the command `a $x`, on the same level or in the body of an if.     *)
(* parse_let hands the key over as the Values of the one literal x, the    *)
(* quoted string s is one Literal.  One more line leaves a scope behind.   *)
(***************************************************************************)
LetStrings == {<<>>, <<"s">>, <<"s", " ", "t">>, <<"0", "7">>}

LetX(s) == Let(Values(<<Lit(<<"x">>)>>), Lit(s))

UseX == Command(<<Lit(<<"a">>), Variable(<<"x">>)>>)

LetThenUse(s) == <<LetX(s), UseX>>

LetThenUseNested(s) == <<LetX(s), If(Cmd("t"), <<UseX>>, <<>>)>>

LetPrograms ==
    {LetThenUse(s) : s \in LetStrings} \cup {LetThenUseNested(s) : s \in LetStrings}
    \cup {<<If(Cmd("t"), <<BadBreak>>, <<>>)>>}

CollectLet ==
    /\ pc = "prompt"
    /\ tree' \in LetPrograms
    /\ pc' = "exec"
    /\ UNCHANGED <<scopes, exports, break_num, continue_num, res, build, lex>>

NextLet == CollectLet \/ Exec \/ Report

SpecLet == Init /\ [][NextLet]_vars

(***************************************************************************)
(* A session of lines that set and read variables in a stack of scopes.    *)
(* Shell::start takes exports from the environment of the shell before     *)
(* each line, so a line starts with the exports the environment gives it.  *)
(* One line leaves a scope behind, so that later lines run in an inner     *)
(* scope with the bindings of the earlier lines in the outer one.          *)
(***************************************************************************)
EnvY == EnvPrefix \o <<"y">>

Unset == <<"u">>

ArrayVar(name) == [type |-> "ArrayVariable", name |-> name]

\* env::os_env_hashmap(): the environment is empty or holds y
OsEnvs == {EmptyMap, [n \in {<<"y">>} |-> VString(<<"o">>)]}

\* `let x = a`, `let x = b` and `let env::y = a b`: the key, the value as
\* parse_let hands it over, what it evaluates to and that as a string
LetCases ==
    {[key |-> X, value |-> Lit(<<"a">>), val |-> VString(<<"a">>), str |-> <<"a">>],
     [key |-> X, value |-> Lit(<<"b">>), val |-> VString(<<"b">>), str |-> <<"b">>],
     [key |-> EnvY, value |-> Values(<<Lit(<<"a">>), Lit(<<"b">>)>>),
      val |-> VArray(<<VString(<<"a">>), VString(<<"b">>)>>), str |-> <<"a", " ", "b">>]}

LetLine(c) == <<LetOf(c.key, c.value)>>

LetLines == {LetLine(c) : c \in LetCases}

ReadNames == {X, EnvY, Unset}

\* `let r = $n` and `let r = @n`
ReadLine(n) == <<LetOf(Result, Variable(n))>>

ReadArrayLine(n) == <<LetOf(Result, ArrayVar(n))>>

LeaveScope == <<If(Cmd("t"), <<BadBreak>>, <<>>)>>

ScopePrograms ==
    LetLines
    \cup {ReadLine(n) : n \in ReadNames}
    \cup {ReadArrayLine(n) : n \in ReadNames}
    \cup {LeaveScope}

\* Shell::collect, the exports of the line and the build of the tree
CollectScope ==
    /\ pc = "prompt"
    /\ tree' \in ScopePrograms
    /\ exports' \in OsEnvs
    /\ pc' = "exec"
    /\ UNCHANGED <<scopes, break_num, continue_num, res, build, lex>>

NextScope == CollectScope \/ Exec \/ Report

SpecScope == Init /\ [][NextScope]_vars

(***************************************************************************)
(* The tree builder (ast.rs).  A token is a record tagged by t, a Literal  *)
(* with its str, a CommandEnd with its ch.  Tree walks the tokens with the *)
(* index i, counted from 0 as in the source.  A parse function hands back  *)
(* [k, val, i]: k is "ok", "err" (an Err that is passed up), "none" (the   *)
(* Err "No expression found", passed up as well) or "panic" (tokens.get(i).unwrap() past the  *)
(* last token, a slice that starts past it, or self.i -= 1 at 0); val is   *)
(* the value or expression built, i the index the function leaves behind.  *)
(* The tokens of the model are Space, Literal, CommandEnd, RedirectInto,   *)
(* And, Or, FileWrite, FileRead, Let, ExportSet, If, Else, End, While,     *)
(* For, ParenthesisStart and ParenthesisEnd.  k is "loops" when a loop of  *)
(* the builder comes back to an index it has been at: what the loop does   *)
(* depends on the index alone, so it never ends.                           *)
(***************************************************************************)
Space == [t |-> "Space"]

TLit(str) == [t |-> "Literal", str |-> str]

CommandEnd(ch) == [t |-> "CommandEnd", ch |-> ch]

Op(t) == [t |-> t]

\* Tokens::to_str
to_str(token) ==
    CASE token.t = "Space" -> <<" ">>
      [] token.t = "Literal" -> token.str
      [] token.t = "CommandEnd" -> <<token.ch>>
      [] token.t = "RedirectInto" -> <<"|">>
      [] token.t = "FileRead" -> <<"<">>
      [] token.t = "FileWrite" -> <<">">>
      [] token.t = "And" -> <<"&", "&">>
      [] token.t = "Or" -> <<"|", "|">>
      [] token.t = "Let" -> <<"l", "e", "t">>
      [] token.t = "ExportSet" -> <<"=">>
      [] token.t = "If" -> <<"i", "f">>
      [] token.t = "Else" -> <<"e", "l", "s", "e">>
      [] token.t = "While" -> <<"w", "h", "i", "l", "e">>
      [] token.t = "For" -> <<"f", "o", "r">>
      [] token.t = "End" -> <<"e", "n", "d">>
      [] token.t = "ParenthesisStart" -> <<"(">>
      [] token.t = "ParenthesisEnd" -> <<")">>

P(k, val, i) == [k |-> k, val |-> val, i |-> i]

PFail(k, i) == P(k, NoNode, i)

\* is there a token at i (tokens.get(i) is Some)
HasToken(toks, i) == i < Len(toks)

\* Tree::get_current_token, where HasToken
get_current_token(toks, i) == toks[i + 1]

\* the word of a command: one fragment alone, or the Values of several
Word(buf) == IF Len(buf) = 1 THEN buf[1] ELSE Values(buf)

RECURSIVE CallLoop(_, _, _, _, _, _)
\* the loop of Tree::parse_call and what follows it, entered with token as
\* the current token
CallLoop(toks, end, i, token, values, buf) ==
    LET Done(i1, token1, values1, buf1) ==
            IF token1.t \in {"FileWrite", "FileRead", "RedirectInto"} /\ i1 = 0 THEN PFail("panic", i1)
            ELSE P("ok",
                   Command(IF buf1 # <<>> THEN Append(values1, Word(buf1)) ELSE values1),
                   IF token1.t \in {"FileWrite", "FileRead", "RedirectInto"} THEN i1 - 1 ELSE i1)
        AfterSpace(values1) ==
            IF i >= end - 1 THEN Done(i, token, values1, <<>>)
            ELSE IF ~HasToken(toks, i + 1) THEN PFail("panic", i + 1)
            ELSE CallLoop(toks, end, i + 1, get_current_token(toks, i + 1), values1, <<>>)
        Next1(token1, buf1) ==
            IF token1.t = "CommandEnd" THEN Done(i + 1, token1, values, buf1)
            ELSE CallLoop(toks, end, i + 1, token1, values, buf1)
        Pushed(buf1) ==
            IF i >= end - 1 THEN Done(i, token, values, buf1)
            ELSE IF ~HasToken(toks, i + 1) THEN PFail("panic", i + 1)
            ELSE Next1(get_current_token(toks, i + 1), buf1)
    IN  IF token.t = "Space"
        THEN AfterSpace(IF buf # <<>> THEN Append(values, Word(buf)) ELSE values)
        ELSE IF token.t \in {"FileWrite", "FileRead", "RedirectInto", "And", "Or"}
        THEN Done(i, token, values, buf)
        ELSE IF token.t = "ParenthesisEnd" /\ i >= end - 1 THEN Done(i, token, values, buf)
        ELSE Pushed(Append(buf, Lit(to_str(token))))

\* Tree::parse_call
parse_call(toks, i, end) ==
    IF ~HasToken(toks, i) THEN PFail("panic", i)
    ELSE CallLoop(toks, end, i, get_current_token(toks, i), <<>>, <<>>)

RECURSIVE ValueLoop(_, _, _, _, _, _, _)
\* the loop of Tree::get_value and what follows it
ValueLoop(toks, end, stop_on_space, i, token, values, buf) ==
    LET Single(values1) == IF Len(values1) = 1 THEN values1[1] ELSE Values(values1)
        Done(values1, buf1) ==
            P("ok", Single(IF buf1 # <<>> THEN Append(values1, Word(buf1)) ELSE values1), i)
        Inc(values1, buf1) ==
            IF ~HasToken(toks, i + 1) THEN PFail("panic", i + 1)
            ELSE ValueLoop(toks, end, stop_on_space, i + 1, get_current_token(toks, i + 1), values1, buf1)
        Bottom(values1, buf1) ==
            IF i >= end - 1 THEN Done(values1, buf1) ELSE Inc(values1, buf1)
    IN  CASE token.t = "Space" ->
                IF buf = <<>> THEN Inc(values, buf)
                ELSE IF stop_on_space THEN Done(values, buf)
                ELSE Bottom(Append(values, Values(buf)), <<>>)
          [] token.t = "CommandEnd" -> Done(values, buf)
          [] token.t \in {"Literal", "FileRead", "FileWrite", "Else", "End", "For", "If", "Let", "While"} ->
                Bottom(values, Append(buf, Lit(to_str(token))))
          [] token.t \in {"RedirectInto", "And", "Or", "ExportSet", "ParenthesisStart", "ParenthesisEnd"} ->
                PFail("err", i)

\* Tree::get_value
get_value(toks, i, end, stop_on_space) ==
    IF ~HasToken(toks, i) THEN PFail("panic", i)
    ELSE ValueLoop(toks, end, stop_on_space, i, get_current_token(toks, i), <<>>, <<>>)

RECURSIVE ValEnd(_, _, _)
\* the for loop of parse_write and parse_read over tokens[j..]: [k, val_end]
\* with val_end as the loop leaves it
ValEnd(toks, j, found_first) ==
    LET At(t) ==
            CASE t = "Space" ->
                    IF found_first THEN [k |-> "ok", val_end |-> j + 1] ELSE ValEnd(toks, j + 1, found_first)
              [] t = "CommandEnd" ->
                    IF ~found_first THEN [k |-> "err", val_end |-> j + 1] ELSE [k |-> "ok", val_end |-> j + 1]
              [] t \in {"FileRead", "FileWrite"} -> [k |-> "err", val_end |-> j + 1]
              [] OTHER -> ValEnd(toks, j + 1, TRUE)
    IN  IF j >= Len(toks) THEN [k |-> "ok", val_end |-> j] ELSE At(toks[j + 1].t)

\* Tree::parse_write (exp is the Option<Expression> parsed so far)
parse_write(toks, i, exp) ==
    LET Got(v) ==
            IF v.k # "ok" THEN PFail(v.k, v.i)
            ELSE P("ok", FileTarget(exp, v.val), v.i + 1)
        Scanned(sc) ==
            IF sc.k # "ok" THEN PFail(sc.k, i + 1)
            ELSE Got(get_value(toks, i + 1, sc.val_end - 1, FALSE))
    IN  IF i + 1 > Len(toks) THEN PFail("panic", i + 1)
        ELSE Scanned(ValEnd(toks, i + 1, FALSE))

\* Tree::parse_read
parse_read(toks, i, exp) ==
    LET Got(v) ==
            IF v.k # "ok" THEN PFail(v.k, v.i)
            ELSE P("ok", FileSource(v.val, exp), v.i + 1)
        Scanned(sc) ==
            IF sc.k # "ok" THEN PFail(sc.k, i + 1)
            ELSE Got(get_value(toks, i + 1, sc.val_end - 1, FALSE))
    IN  IF i + 1 > Len(toks) THEN PFail("panic", i + 1)
        ELSE Scanned(ValEnd(toks, i + 1, FALSE))

RECURSIVE get_expression(_, _, _)

\* .with_context(..) on the result of get_expression: the text of the error
\* is the context, no longer "No expression found"
with_context(r) == IF r.k = "none" THEN PFail("err", r.i) ELSE r

RECURSIVE ParensLoop(_, _, _, _, _)
\* the for loop of get_parens_vals over tokens[j..end]
ParensLoop(toks, j, end, len, lvl) ==
    LET Lvl(t) ==
            IF t = "ParenthesisStart" THEN lvl + 1
            ELSE IF t = "ParenthesisEnd" THEN lvl - 1 ELSE lvl
        At(lvl1) ==
            IF lvl1 = 0 THEN [k |-> "ok", len |-> len, lvl |-> 0]
            ELSE ParensLoop(toks, j + 1, end, len + 1, lvl1)
    IN  IF j >= end THEN [k |-> "ok", len |-> len, lvl |-> lvl] ELSE At(Lvl(toks[j + 1].t))

\* Tree::get_parens_vals; the slice tokens[i..end] panics when i > end
get_parens_vals(toks, i, end) ==
    IF i > end \/ end > Len(toks) THEN [k |-> "panic", len |-> 0, lvl |-> 0]
    ELSE ParensLoop(toks, i, end, 0, 1)

RECURSIVE KeyLen(_, _)
\* the for loop of parse_let over tokens[j..]: the tokens before the first
\* ExportSet, all of them when there is none
KeyLen(toks, j) ==
    IF j >= Len(toks) \/ toks[j + 1].t = "ExportSet" THEN 0 ELSE 1 + KeyLen(toks, j + 1)

\* Tree::parse_let
parse_let(toks, i, end) ==
    LET Value(key, value) ==
            IF value.k # "ok" THEN PFail(value.k, value.i)
            ELSE P("ok", Let(key.val, value.val), value.i)
        Key(key) ==
            IF key.k # "ok" THEN PFail(key.k, key.i)
            ELSE Value(key, get_value(toks, key.i + 2, end, FALSE))
    IN  IF end < i + 2 THEN PFail("err", i)
        ELSE IF i + 1 > Len(toks) THEN PFail("panic", i + 1)
        ELSE Key(get_value(toks, i + 1, i + 1 + KeyLen(toks, i + 1), FALSE))

RECURSIVE ElseSkip(_, _, _)
\* the first loop of parse_else: k is "ok" when it is left by break and
\* "empty" when by return Ok(Vec::new())
ElseSkip(toks, end, i) ==
    IF ~HasToken(toks, i) THEN [k |-> "panic", i |-> i]
    ELSE IF get_current_token(toks, i).t \in {"CommandEnd", "Space"}
    THEN IF i + 1 >= end - 1 THEN [k |-> "empty", i |-> i + 1] ELSE ElseSkip(toks, end, i + 1)
    ELSE [k |-> "ok", i |-> i]

RECURSIVE ElseContents(_, _, _, _, _)
\* the loop of parse_else after Else; seen holds the indices it has been at
ElseContents(toks, end, i, contents, seen) ==
    LET Turn(i1, contents1) ==
            IF i1 + 1 >= end THEN P("ok", contents1, i1 + 1)
            ELSE ElseContents(toks, end, i1 + 1, contents1, seen \cup {i})
        Got(r) ==
            IF r.k # "ok" THEN PFail(r.k, r.i) ELSE Turn(r.i, Append(contents, r.val))
        GotIf(r) ==
            IF r.k # "ok" THEN PFail(r.k, r.i)
            ELSE IF contents = <<>> THEN P("ok", <<r.val>>, r.i)
            ELSE Turn(r.i, Append(contents, r.val))
        At(t) ==
            CASE t \in {"End", "Else"} -> P("ok", contents, i)
              [] t \in {"Space", "CommandEnd"} -> Turn(i, contents)
              [] t = "If" -> GotIf(with_context(get_expression(toks, i, end)))
              [] OTHER -> Got(with_context(get_expression(toks, i, end)))
    IN  IF i \in seen THEN PFail("loops", i)
        ELSE IF ~HasToken(toks, i) THEN PFail("panic", i)
        ELSE At(get_current_token(toks, i).t)

RECURSIVE ElseTail(_, _, _)
\* the last loop of parse_else and the inc after it
ElseTail(toks, end, i) ==
    IF ~HasToken(toks, i) THEN [k |-> "panic", i |-> i]
    ELSE IF get_current_token(toks, i).t \in {"CommandEnd", "Space"}
    THEN IF i + 1 >= end - 1 THEN [k |-> "ok", i |-> i + 2] ELSE ElseTail(toks, end, i + 1)
    ELSE [k |-> "ok", i |-> i + 1]

\* Tree::parse_else
parse_else(toks, i, end) ==
    LET Tailed(c, tl) ==
            IF tl.k # "ok" THEN PFail(tl.k, tl.i) ELSE P("ok", c.val, tl.i)
        Rest(c) ==
            IF c.k # "ok" THEN PFail(c.k, c.i)
            ELSE IF c.i < end THEN Tailed(c, ElseTail(toks, end, c.i))
            ELSE P("ok", c.val, c.i)
        Contents(i1) ==
            IF ~HasToken(toks, i1) THEN PFail("panic", i1)
            ELSE IF get_current_token(toks, i1).t = "Else"
            THEN Rest(ElseContents(toks, end, i1 + 1, <<>>, {}))
            ELSE Rest(P("ok", <<>>, i1))
        Skipped(s) ==
            CASE s.k = "panic" -> PFail("panic", s.i)
              [] s.k = "empty" -> P("ok", <<>>, s.i)
              [] OTHER -> Contents(s.i)
    IN  Skipped(ElseSkip(toks, end, i))

RECURSIVE IfContents(_, _, _, _, _)
\* the loop of parse_if; seen holds the indices it has been at
IfContents(toks, end, i, contents, seen) ==
    LET Turn(i1, contents1) ==
            IF i1 + 1 >= end THEN P("ok", contents1, i1 + 1)
            ELSE IfContents(toks, end, i1 + 1, contents1, seen \cup {i})
        Got(r) ==
            IF r.k # "ok" THEN PFail(r.k, r.i) ELSE Turn(r.i, Append(contents, r.val))
        At(t) ==
            CASE t \in {"End", "Else"} -> P("ok", contents, i)
              [] t \in {"Space", "CommandEnd"} -> Turn(i, contents)
              [] OTHER -> Got(with_context(get_expression(toks, i, end)))
    IN  IF i \in seen THEN PFail("loops", i)
        ELSE IF ~HasToken(toks, i) THEN PFail("panic", i)
        ELSE At(get_current_token(toks, i).t)

\* Tree::parse_if
parse_if(toks, i, end) ==
    LET Else(cond, body, other) ==
            IF other.k # "ok" THEN PFail(other.k, other.i)
            ELSE P("ok", If(cond.val, body.val, other.val), other.i)
        Body(cond, body) ==
            IF body.k # "ok" THEN PFail(body.k, body.i)
            ELSE Else(cond, body, parse_else(toks, body.i, end))
        Cond(cond) ==
            IF cond.k # "ok" THEN PFail(cond.k, cond.i)
            ELSE Body(cond, IfContents(toks, end, cond.i, <<>>, {}))
    IN  Cond(with_context(get_expression(toks, i + 1, end)))

RECURSIVE WhileContents(_, _, _, _, _)
\* the loop of parse_while; seen holds the indices it has been at
WhileContents(toks, end, i, contents, seen) ==
    LET Got(r) ==
            IF r.k # "ok" THEN PFail(r.k, r.i)
            ELSE WhileContents(toks, end, r.i, Append(contents, r.val), seen \cup {i})
        At(t) ==
            CASE t = "End" -> P("ok", contents, i)
              [] t = "Else" -> PFail("err", i)
              [] t \in {"CommandEnd", "Space"} ->
                    WhileContents(toks, end, i + 1, contents, seen \cup {i})
              [] OTHER -> Got(with_context(get_expression(toks, i, end)))
    IN  IF i \in seen THEN PFail("loops", i)
        ELSE IF ~HasToken(toks, i) THEN PFail("panic", i)
        ELSE At(get_current_token(toks, i).t)

\* Tree::parse_while
parse_while(toks, i, end) ==
    LET Body(cond, body) ==
            IF body.k # "ok" THEN PFail(body.k, body.i)
            ELSE P("ok", While(cond.val, body.val), body.i + 1)
        Cond(cond) ==
            IF cond.k # "ok" THEN PFail(cond.k, cond.i)
            ELSE Body(cond, WhileContents(toks, end, cond.i + 1, <<>>, {}))
    IN  Cond(with_context(get_expression(toks, i + 1, end)))

\* the literal in
In == <<"i", "n">>

RECURSIVE ForContents(_, _, _, _, _)
\* the loop of parse_for; seen holds the indices it has been at
ForContents(toks, end, i, contents, seen) ==
    LET Turn(i1, contents1) ==
            IF i1 >= end - 1 THEN P("ok", contents1, i1)
            ELSE ForContents(toks, end, i1 + 1, contents1, seen \cup {i})
        Got(r) ==
            IF r.k # "ok" THEN PFail(r.k, r.i) ELSE Turn(r.i, Append(contents, r.val))
        At(t) ==
            CASE t \in {"End", "Else"} -> P("ok", contents, i)
              [] t \in {"Space", "CommandEnd"} -> Turn(i, contents)
              [] OTHER -> Got(with_context(get_expression(toks, i, end)))
    IN  IF i \in seen THEN PFail("loops", i)
        ELSE IF ~HasToken(toks, i) THEN PFail("panic", i)
        ELSE At(get_current_token(toks, i).t)

\* Tree::parse_for
parse_for(toks, i, end) ==
    LET Else(key, value, list, body, other) ==
            IF other.k # "ok" THEN PFail(other.k, other.i)
            ELSE P("ok", ForOf(key, value.val, list.val, body.val, other.val), other.i)
        Body(key, value, list, body) ==
            IF body.k # "ok" THEN PFail(body.k, body.i)
            ELSE Else(key, value, list, body, parse_else(toks, body.i, end))
        List(key, value, list) ==
            IF list.k # "ok" THEN PFail(list.k, list.i)
            ELSE Body(key, value, list, ForContents(toks, end, list.i, <<>>, {}))
        Third(value, key, third) ==
            IF third.k # "ok" THEN PFail(third.k, third.i)
            ELSE IF third.val # Lit(In) THEN PFail("err", third.i)
            ELSE List(SomeValue(key.val), value, get_value(toks, third.i + 1, end, FALSE))
        Key(value, key) ==
            IF key.k # "ok" THEN PFail(key.k, key.i)
            ELSE IF key.val = Lit(In) THEN List(None, value, get_value(toks, key.i, end, FALSE))
            ELSE Third(value, key, get_value(toks, key.i, end, TRUE))
        Value(value) ==
            IF value.k # "ok" THEN PFail(value.k, value.i)
            ELSE Key(value, get_value(toks, value.i, end, TRUE))
    IN  Value(get_value(toks, i + 1, end, TRUE))

RECURSIVE ExprLoop(_, _, _, _, _)
\* the loop of Tree::get_expression and what follows it; exp is expr
ExprLoop(toks, end, i, token, exp) ==
    LET Finish(i1, exp1) ==
            IF exp1.some THEN P("ok", exp1.expr, i1) ELSE PFail("none", i1)
        Bottom(i1, exp1) ==
            IF i1 >= end - 1 THEN Finish(i1, exp1)
            ELSE IF ~HasToken(toks, i1) THEN PFail("panic", i1)
            ELSE ExprLoop(toks, end, i1, get_current_token(toks, i1), exp1)
        Parsed(r) ==
            IF r.k # "ok" THEN PFail(r.k, r.i) ELSE Bottom(r.i, SomeExpr(r.val))
        Pipe2(r) ==
            IF r.k # "ok" THEN PFail(r.k, r.i)
            ELSE Bottom(r.i, SomeExpr(Pipe(exp.expr, r.val)))
        And2(r) ==
            IF r.k # "ok" THEN PFail(r.k, r.i)
            ELSE Bottom(r.i, SomeExpr(And(exp.expr, r.val)))
        Or2(r) ==
            IF r.k # "ok" THEN PFail(r.k, r.i)
            ELSE Bottom(r.i, SomeExpr(Or(exp.expr, r.val)))
        Inner(r) ==
            IF r.k # "ok" THEN PFail(r.k, r.i) ELSE Bottom(r.i + 1, SomeExpr(r.val))
        Parens(pv) ==
            IF pv.k = "panic" THEN PFail("panic", i + 1)
            ELSE IF pv.lvl # 0 THEN PFail("err", i + 1)
            ELSE Inner(get_expression(toks, i + 1, i + 1 + pv.len))
    IN  CASE token.t = "Space" -> Bottom(i + 1, exp)
          [] token.t = "CommandEnd" -> IF exp.some THEN Finish(i, exp) ELSE Bottom(i + 1, exp)
          [] token.t = "Literal" -> IF exp.some THEN PFail("err", i) ELSE Parsed(parse_call(toks, i, end))
          [] token.t = "FileRead" -> Parsed(parse_read(toks, i, exp))
          [] token.t = "FileWrite" -> Parsed(parse_write(toks, i, exp))
          [] token.t = "RedirectInto" ->
                IF ~exp.some THEN PFail("err", i) ELSE Pipe2(get_expression(toks, i + 1, end))
          [] token.t = "And" ->
                IF ~exp.some THEN PFail("err", i) ELSE And2(get_expression(toks, i + 1, end))
          [] token.t = "Or" ->
                IF ~exp.some THEN PFail("err", i) ELSE Or2(get_expression(toks, i + 1, end))
          [] token.t \in {"ExportSet", "ParenthesisEnd", "Else", "End"} -> PFail("err", i)
          [] token.t = "ParenthesisStart" ->
                IF exp.some THEN PFail("err", i) ELSE Parens(get_parens_vals(toks, i + 1, end))
          [] token.t = "For" -> IF exp.some THEN PFail("err", i) ELSE Parsed(parse_for(toks, i, end))
          [] token.t = "If" -> IF exp.some THEN PFail("err", i) ELSE Parsed(parse_if(toks, i, end))
          [] token.t = "Let" -> parse_let(toks, i, end)
          [] token.t = "While" -> parse_while(toks, i, end)

\* Tree::get_expression
get_expression(toks, i, end) ==
    IF ~HasToken(toks, i) THEN PFail("panic", i)
    ELSE ExprLoop(toks, end, i, get_current_token(toks, i), NoExpr)

(***************************************************************************)
(* The lines given to build_tree: up to MaxStages commands of up to        *)
(* MaxWords words, joined by an operator with or without a Space token on  *)
(* either side of it, as the lexer hands them over, and ended by nothing,  *)
(* by `;` or by a Space and `;`.                                           *)
(***************************************************************************)
\* the largest number of commands on a line
MaxStages == 3
\* the largest number of words of a command
MaxWords == 2

StageNames == <<"a", "b", "c", "d">>

\* the j-th word of the k-th command: its name, then 2, 3, ..
StageWord(k, j) == IF j = 1 THEN <<StageNames[k]>> ELSE NatToStr(j)

\* the tokens of the k-th command with n words
StageTokens(k, n) ==
    [x \in 1..(2 * n - 1) |-> IF x % 2 = 1 THEN TLit(StageWord(k, (x + 1) \div 2)) ELSE Space]

\* the Command node that holds exactly the n words of the k-th command
StageCommand(k, n) == Command([j \in 1..n |-> Lit(StageWord(k, j))])

Operators == {"RedirectInto", "And", "Or", "FileWrite", "FileRead"}

\* the operator op with a Space before it and after it, or without
Joint(op, before, after) ==
    (IF before THEN <<Space>> ELSE <<>>) \o <<Op(op)>> \o (IF after THEN <<Space>> ELSE <<>>)

RECURSIVE Stages(_)
\* the lines of n commands, without their end
Stages(n) ==
    IF n = 1 THEN {StageTokens(1, w) : w \in 1..MaxWords}
    ELSE {l \o Joint(op, b, a) \o StageTokens(n, w) :
            l \in Stages(n - 1), op \in Operators, b \in BOOLEAN, a \in BOOLEAN, w \in 1..MaxWords}

LineEnds == {<<>>, <<CommandEnd(";")>>, <<Space, CommandEnd(";")>>}

TokenLines == {l \o e : l \in UNION {Stages(n) : n \in 1..MaxStages}, e \in LineEnds}

(***************************************************************************)
(* build_tree, one turn of its loop at a time.  build.status is "building" *)
(* while the loop runs, then "ok" (Ok(expressions)), "err", "panic" or     *)
(* "loops".                                                                *)
(***************************************************************************)
InitTree ==
    /\ scopes = <<NewScope>>
    /\ exports = EmptyMap
    /\ break_num = 0
    /\ continue_num = 0
    /\ pc = "build"
    /\ tree = <<>>
    /\ res = NoRes
    /\ lex = NoLex
    /\ \E l \in TokenLines :
          build = [status |-> "building", tokens |-> l, i |-> 0, expressions |-> <<>>]

\* one turn of the loop: get_expression and what the match makes of it.  Of
\* no tokens, tokens.len() - 1 overflows: the build panics there when it
\* checks overflow and wraps to the largest usize when not, and then
\* get_expression panics on tokens.get(0).  A turn that leaves i where it
\* was is taken again and again.
BuildExpression ==
    /\ build.status = "building"
    /\ build.i < Len(build.tokens) - 1 \/ build.tokens = <<>>
    /\ LET Got(r) ==
              CASE r.k = "ok" /\ r.i = build.i -> [build EXCEPT !.status = "loops"]
                [] r.k = "ok" /\ r.i # build.i ->
                      [build EXCEPT !.expressions = Append(@, r.val), !.i = r.i]
                [] r.k = "none" -> [build EXCEPT !.status = "ok", !.i = r.i]
                [] OTHER -> [build EXCEPT !.status = r.k, !.i = r.i]
       IN  build' = Got(get_expression(build.tokens, build.i, Len(build.tokens)))
    /\ UNCHANGED <<scopes, exports, break_num, continue_num, pc, tree, res, lex>>

\* if tree.i >= tree.tokens.len() - 1 { break; } and Ok(expressions), of at
\* least one token
BuildReturn ==
    /\ build.status = "building"
    /\ build.i >= Len(build.tokens) - 1
    /\ build.tokens # <<>>
    /\ build' = [build EXCEPT !.status = "ok"]
    /\ UNCHANGED <<scopes, exports, break_num, continue_num, pc, tree, res, lex>>

NextTree == BuildExpression \/ BuildReturn

SpecTree == InitTree /\ [][NextTree]_vars

(***************************************************************************)
(* build_tree on lines with let, if, while, for and parentheses: every     *)
(* sequence of up to MaxTokens tokens, the empty one among them, and whole *)
(* statements with a body, with and without the End that closes them.      *)
(***************************************************************************)
\* the largest number of tokens of a sequence out of TokenKinds
MaxTokens == 3

Semicolon == CommandEnd(";")

TokenKinds ==
    {TLit(<<"a">>), Space, Semicolon, Op("Let"), Op("ExportSet"), Op("If"), Op("Else"),
     Op("End"), Op("While"), Op("For"), Op("ParenthesisStart"), Op("ParenthesisEnd"),
     Op("RedirectInto"), Op("And"), Op("Or")}

ShortLines == UNION {[1..n -> TokenKinds] : n \in 0..MaxTokens}

\* the words w, one Space between them
RECURSIVE Spaced(_)
Spaced(w) ==
    IF Len(w) = 0 THEN <<>>
    ELSE IF Len(w) = 1 THEN <<TLit(w[1])>>
    ELSE <<TLit(w[1]), Space>> \o Spaced(SubSeq(w, 2, Len(w)))

\* `a |let`: get_expression meets Let as the last token before end
PipeIntoLet == <<TLit(<<"a">>), Space, Op("RedirectInto"), Op("Let")>>

\* `let x = a`, `let x a` and `let x`, ended by `;` or by nothing
LetTokenLines ==
    {<<Op("Let"), Space>> \o mid \o e :
        mid \in {<<TLit(X), Space, Op("ExportSet"), Space, TLit(<<"a">>)>>,
                 <<TLit(X), Space, TLit(<<"a">>)>>,
                 <<TLit(X)>>},
        e \in {<<>>, <<Semicolon>>}}
    \cup {PipeIntoLet}

\* the body `; a; ` and what closes the statement: `end` and the end of the
\* line, the end of the line alone, or nothing
Closings == {<<Op("End"), CommandEnd(NewLine)>>, <<CommandEnd(NewLine)>>, <<>>}

BodyTokens == <<Semicolon, Space, TLit(<<"a">>), Semicolon, Space>>

\* `for v in l`, `for k v in l` and `for k v l`, each with the body
ForHeads == {<<<<"v">>, In, <<"l">>>>, <<<<"k">>, <<"v">>, In, <<"l">>>>, <<<<"k">>, <<"v">>, <<"l">>>>}

ForTokens(head, closing) == <<Op("For"), Space>> \o Spaced(head) \o BodyTokens \o closing

\* `if c` and `while c` with the body
CondTokens(kw, closing) == <<Op(kw), Space, TLit(<<"c">>)>> \o BodyTokens \o closing

\* `if c; a; else b; end`
IfElseTokens ==
    <<Op("If"), Space, TLit(<<"c">>)>> \o BodyTokens
    \o <<Op("Else"), Space, TLit(<<"b">>), Semicolon, Space, Op("End"), CommandEnd(NewLine)>>

\* `(a | b)` and `(a | b`, `while c; a` in one line
ParenTokens(closed) ==
    <<Op("ParenthesisStart"), TLit(<<"a">>), Space, Op("RedirectInto"), Space, TLit(<<"b">>)>>
    \o (IF closed THEN <<Op("ParenthesisEnd")>> ELSE <<>>) \o <<CommandEnd(NewLine)>>

ParseLines ==
    ShortLines \cup LetTokenLines
    \cup {ForTokens(h, c) : h \in ForHeads, c \in Closings}
    \cup {CondTokens(kw, c) : kw \in {"If", "While"}, c \in Closings}
    \cup {IfElseTokens}
    \cup {ParenTokens(closed) : closed \in BOOLEAN}
    \cup {<<Op("While"), Space, TLit(<<"c">>), Semicolon, TLit(<<"a">>)>>}

InitParse ==
    /\ scopes = <<NewScope>>
    /\ exports = EmptyMap
    /\ break_num = 0
    /\ continue_num = 0
    /\ pc = "build"
    /\ tree = <<>>
    /\ res = NoRes
    /\ lex = NoLex
    /\ \E l \in ParseLines :
          build = [status |-> "building", tokens |-> l, i |-> 0, expressions |-> <<>>]

SpecParse == InitParse /\ [][NextTree]_vars

(***************************************************************************)
(* The lexer (tokens.rs, tokenize).  lex holds the text, the index i of    *)
(* the for loop (counted from 0), the three flags, the literal buffer buf, *)
(* the tokens pushed so far and the skipper.  lex.status is "lexing" while *)
(* the loop runs, then "ok" (Ok(tokens)) or "panic" (an unwrap on a        *)
(* character past the end of the text, or a panic! of read_var_ahead).     *)
(* The text is ASCII, so byte and character indices agree.                 *)
(***************************************************************************)
Quote == "'"

DoubleQuote == "\""

Backslash == "\\"

\* is there a character at x (text.chars().nth(x) is Some)
HasChar(text, x) == x < Len(text)

\* text.chars().nth(x).unwrap(), where HasChar
CharAt(text, x) == text[x + 1]

StringVariable(name, braced) == [t |-> "StringVariable", name |-> name, braced |-> braced]

ArrayVariable(name, braced) == [t |-> "ArrayVariable", name |-> name, braced |-> braced]

StringFunction(name) == [t |-> "StringFunction", name |-> name]

ArrayFunction(name) == [t |-> "ArrayFunction", name |-> name]

\* 'a'..='z' | 'A'..='Z' | '0'..='9' | ':' | '_'
NameChars ==
    {"a", "b", "c", "d", "e", "f", "g", "h", "i", "j", "k", "l", "m",
     "n", "o", "p", "q", "r", "s", "t", "u", "v", "w", "x", "y", "z",
     "A", "B", "C", "D", "E", "F", "G", "H", "I", "J", "K", "L", "M",
     "N", "O", "P", "Q", "R", "S", "T", "U", "V", "W", "X", "Y", "Z",
     "0", "1", "2", "3", "4", "5", "6", "7", "8", "9", ":", "_"}

RECURSIVE VarAhead(_, _, _, _)
\* the loop of read_var_ahead, x already stepped on: [k, x, buf]
VarAhead(text, x, buf, parens_mode) ==
    LET At(letter) ==
            IF letter \in NameChars THEN VarAhead(text, x + 1, Append(buf, letter), parens_mode)
            ELSE IF letter = "}" THEN [k |-> "ok", x |-> IF parens_mode THEN x + 1 ELSE x, buf |-> buf]
            ELSE IF ~parens_mode THEN [k |-> "ok", x |-> x, buf |-> buf]
            ELSE [k |-> "panic", x |-> x, buf |-> buf]
    IN  IF ~HasChar(text, x) THEN [k |-> "panic", x |-> x, buf |-> buf] ELSE At(CharAt(text, x))

\* read_var_ahead: [k, skip, token]
read_var_ahead(i, text) ==
    LET Token(buf, parens_mode) ==
            IF CharAt(text, i) = "$" THEN StringVariable(buf, parens_mode)
            ELSE ArrayVariable(buf, parens_mode)
        Read(r, parens_mode) ==
            IF r.k # "ok" \/ CharAt(text, i) \notin {"$", "@"}
            THEN [k |-> "panic", skip |-> 0, token |-> Space]
            ELSE [k |-> "ok", skip |-> r.x - i - 1, token |-> Token(r.buf, parens_mode)]
        Mode(parens_mode) == Read(VarAhead(text, i + 1, <<>>, parens_mode), parens_mode)
    IN  IF ~HasChar(text, i + 1) THEN [k |-> "panic", skip |-> 0, token |-> Space]
        ELSE Mode(CharAt(text, i + 1) = "{")

\* check_keyword
check_keyword(text, i, keyword) ==
    IF Len(text) < i + Len(keyword) + 1 THEN FALSE
    ELSE SubSeq(text, i + 1, i + Len(keyword)) = keyword

RECURSIVE SpaceRun(_, _)
\* while text.chars().nth(x).unwrap() == ' ' { x += 1 }: the x it ends with,
\* -1 when it runs past the end of the text (unwrap on None)
SpaceRun(text, x) ==
    IF ~HasChar(text, x) THEN -1
    ELSE IF CharAt(text, x) = " " THEN SpaceRun(text, x + 1)
    ELSE x

\* if buf.len() > 0 { tokens.push(Tokens::Literal(buf)); buf = String::new(); }
Flush(l) ==
    IF Len(l.buf) > 0 THEN [l EXCEPT !.tokens = Append(@, TLit(l.buf)), !.buf = <<>>] ELSE l

\* none of the three flags is set
Plain(l) == ~l.escape_active /\ ~l.quote_active /\ ~l.double_quote_active

\* what an arm of the match leaves behind: the lexer, and buf_add
Arm(l, buf_add) == [l |-> l, buf_add |-> buf_add, panic |-> FALSE]

ArmPanic(l) == [l |-> l, buf_add |-> FALSE, panic |-> TRUE]

\* the arm of a token that ends the literal, is pushed and skips n characters
TokenArm(l, token, n) ==
    Arm([Flush(l) EXCEPT !.tokens = Append(@, token), !.skipper = n], FALSE)

\* the arm of '$'
DollarArm(l) ==
    LET Adjusted(v) ==
            IF /\ v.token.t = "StringVariable"
               /\ ~v.token.braced
               /\ ~l.double_quote_active
               /\ Len(l.text) > l.i + v.skip
               /\ CharAt(l.text, l.i + v.skip) = "("
            THEN StringFunction(v.token.name)
            ELSE IF /\ v.token.t = "ArrayVariable"
                    /\ ~v.token.braced
                    /\ ~l.double_quote_active
                    /\ Len(l.text) > l.i + v.skip
                    /\ CharAt(l.text, l.i + v.skip) = "("
            THEN ArrayFunction(v.token.name)
            ELSE v.token
        Var(v) == IF v.k # "ok" THEN ArmPanic(l) ELSE TokenArm(l, Adjusted(v), v.skip)
    IN  IF ~HasChar(l.text, l.i + 1) THEN ArmPanic(l)
        ELSE IF CharAt(l.text, l.i + 1) = "(" THEN TokenArm(l, Op("SubStart"), 1)
        ELSE Var(read_var_ahead(l.i, l.text))

\* the arm of ' '
SpaceArm(l) ==
    LET Run(x) == IF x = -1 THEN ArmPanic(l) ELSE TokenArm(l, Space, x - l.i - 1)
    IN  Run(SpaceRun(l.text, l.i))

\* the arm of a keyword's first letter
KeywordArm(l, keyword, token, n) ==
    IF check_keyword(l.text, l.i, keyword) THEN TokenArm(l, token, n) ELSE Arm(l, TRUE)

\* the match on the letter
Match(l, letter) ==
    CASE letter = DoubleQuote ->
            IF ~l.escape_active /\ ~l.quote_active
            THEN Arm([l EXCEPT !.double_quote_active = ~@], FALSE) ELSE Arm(l, TRUE)
      [] letter = Quote ->
            IF ~l.escape_active /\ ~l.double_quote_active
            THEN Arm([l EXCEPT !.quote_active = ~@], FALSE) ELSE Arm(l, TRUE)
      [] letter = "$" ->
            IF ~l.escape_active /\ ~l.quote_active THEN DollarArm(l) ELSE Arm(l, TRUE)
      [] letter = " " -> IF Plain(l) THEN SpaceArm(l) ELSE Arm(l, TRUE)
      [] letter = "(" -> IF Plain(l) THEN TokenArm(l, Op("ParenthesisStart"), 0) ELSE Arm(l, TRUE)
      [] letter = ")" -> IF Plain(l) THEN TokenArm(l, Op("ParenthesisEnd"), 0) ELSE Arm(l, TRUE)
      [] letter = "i" ->
            IF Plain(l) THEN KeywordArm(l, <<"i", "f">>, Op("If"), 2) ELSE Arm(l, TRUE)
      [] letter = "e" ->
            IF ~Plain(l) THEN Arm(l, TRUE)
            ELSE IF check_keyword(l.text, l.i, <<"e", "l", "s", "e">>) THEN TokenArm(l, Op("Else"), 4)
            ELSE KeywordArm(l, <<"e", "n", "d">>, Op("End"), 3)
      [] letter = "l" ->
            IF Plain(l) THEN KeywordArm(l, <<"l", "e", "t">>, Op("Let"), 3) ELSE Arm(l, TRUE)
      [] letter = "w" ->
            IF Plain(l) THEN KeywordArm(l, <<"w", "h", "i", "l", "e">>, Op("While"), 5) ELSE Arm(l, TRUE)
      [] letter = "f" ->
            IF Plain(l) THEN KeywordArm(l, <<"f", "o", "r">>, Op("If"), 3) ELSE Arm(l, TRUE)
      [] letter = "|" ->
            IF ~Plain(l) THEN Arm(l, TRUE)
            ELSE IF check_keyword(l.text, l.i, <<"|", "|">>) THEN TokenArm(l, Op("Or"), 1)
            ELSE TokenArm(l, Op("RedirectInto"), 0)
      [] letter = "&" ->
            IF ~Plain(l) THEN Arm(l, TRUE)
            ELSE IF check_keyword(l.text, l.i, <<"&", "&">>) THEN TokenArm(l, Op("And"), 1)
            ELSE TokenArm(l, Op("JobCommandEnd"), 0)
      [] letter = ">" -> IF Plain(l) THEN TokenArm(l, Op("FileWrite"), 0) ELSE Arm(l, TRUE)
      [] letter = "<" -> IF Plain(l) THEN TokenArm(l, Op("FileRead"), 0) ELSE Arm(l, TRUE)
      [] letter \in {";", "\n"} -> IF Plain(l) THEN TokenArm(l, CommandEnd(letter), 0) ELSE Arm(l, TRUE)
      [] letter = Backslash ->
            IF ~l.escape_active THEN Arm([l EXCEPT !.escape_active = TRUE], FALSE)
            ELSE Arm([l EXCEPT !.escape_active = FALSE], TRUE)
      [] letter = "=" -> IF Plain(l) THEN TokenArm(l, Op("ExportSet"), 0) ELSE Arm(l, TRUE)
      [] OTHER -> Arm(l, TRUE)

\* one turn of the for loop on a letter that is not skipped
Letter(l, letter) ==
    LET After(a) ==
            IF a.panic THEN [l EXCEPT !.status = "panic"]
            ELSE [a.l EXCEPT !.escape_active = IF letter # Backslash THEN FALSE ELSE @,
                             !.buf = IF a.buf_add THEN Append(@, letter) ELSE @,
                             !.i = @ + 1]
    IN  After(Match(l, letter))

(***************************************************************************)
(* The texts given to tokenize: every text of MaxText characters at most   *)
(* over the characters of LexChars, and texts built around a keyword, a    *)
(* variable reference or a run of separators.                              *)
(***************************************************************************)
\* the largest length of a text of FreeTexts
MaxText == 4

LexChars == {Quote, DoubleQuote, Backslash, "$", " ", "|", ";", "i", "f", "a"}

FreeTexts == UNION {[1..n -> LexChars] : n \in 0..MaxText}

\* Tokens::detect
detect(str) ==
    CASE str = <<"i", "f">> -> Op("If")
      [] str = <<"w", "h", "i", "l", "e">> -> Op("While")
      [] str = <<"f", "o", "r">> -> Op("For")
      [] str = <<"l", "e", "t">> -> Op("Let")
      [] str = <<" ">> -> Space
      [] str = <<"e", "l", "s", "e">> -> Op("Else")
      [] str = <<"e", "n", "d">> -> Op("End")
      [] str = <<"$", "(">> -> Op("SubStart")
      [] str = <<"(">> -> Op("ParenthesisStart")
      [] str = <<")">> -> Op("ParenthesisEnd")
      [] str = <<">">> -> Op("FileWrite")
      [] str = <<"<">> -> Op("FileRead")
      [] str = <<"|">> -> Op("RedirectInto")
      [] str \in {<<"\n">>, <<";">>} -> CommandEnd(str[1])
      [] str = <<"=">> -> Op("ExportSet")
      [] OTHER -> TLit(str)

\* the keywords of the lexer
Keywords ==
    {<<"i", "f">>, <<"e", "l", "s", "e">>, <<"e", "n", "d">>, <<"l", "e", "t">>,
     <<"w", "h", "i", "l", "e">>, <<"f", "o", "r">>}

\* what stands before and after a keyword that stands alone
Befores == {<<>>, <<" ">>, <<"a", ";">>}

Afters == {<<>>, <<" ">>, <<"\n">>, <<" ", "a">>, <<";", "a">>}

KeywordTexts == {b \o k \o a : b \in Befores, k \in Keywords, a \in Afters}

\* a reference to a variable: what stands before it, the sigil, the name, the
\* final `?`, the braces, and what follows
Names == {<<>>, <<"a">>, <<"x", ":", "_", "1">>}

Posts == {<<>>, <<";">>, <<" ", "b">>, <<"(", ")", ";">>}

VarCases ==
    {c \in [pre : {<<>>, <<"a">>, <<DoubleQuote>>}, sigil : {"$", "@"}, name : Names,
            q : BOOLEAN, braced : BOOLEAN, post : Posts] :
        c.name # <<>> \/ c.q}

\* the name of the reference, the final `?` included
RefName(c) == c.name \o (IF c.q THEN <<"?">> ELSE <<>>)

VarText(c) ==
    c.pre \o <<c.sigil>>
          \o (IF c.braced THEN <<"{">> \o RefName(c) \o <<"}">> ELSE RefName(c))
          \o c.post

VarTexts == {VarText(c) : c \in VarCases}

\* a braced reference with a character in it that no name has
BadBraceTexts ==
    {pre \o <<"$", "{", "a", "b", "c", "!">> \o post :
        pre \in {<<>>, <<"a", " ">>}, post \in {<<>>, <<"}">>, <<"}", ";">>, <<" ", "b", ";">>}}

\* the largest length of a run of separators
MaxRun == 2

SeparatorChars == {";", "\n", "\r"}

SeparatorRuns == UNION {[1..n -> SeparatorChars] : n \in 1..MaxRun}

SeparatorTexts == {pre \o r \o post : pre \in {<<>>, <<"a">>}, r \in SeparatorRuns, post \in {<<>>, <<"b">>}}

\* words that hold the letters of a keyword, and what ends a word
Words == {<<"l", "i", "f", "e">>, <<"s", "e", "n", "d">>, <<"o", "u", "t", "l", "e", "t">>}

WordEnds == {<<>>, <<" ">>, <<";">>, <<"\n">>}

WordTexts == {w \o e : w \in Words \cup Keywords, e \in WordEnds}

Texts ==
    FreeTexts \cup KeywordTexts \cup VarTexts \cup BadBraceTexts \cup SeparatorTexts
    \cup WordTexts

InitLex ==
    /\ scopes = <<NewScope>>
    /\ exports = EmptyMap
    /\ break_num = 0
    /\ continue_num = 0
    /\ pc = "lex"
    /\ tree = <<>>
    /\ res = NoRes
    /\ build = NoBuild
    /\ \E text \in Texts : lex = [NoLex EXCEPT !.status = "lexing", !.text = text]

\* if skipper > 0 { skipper -= 1; continue; }
LexSkip ==
    /\ lex.status = "lexing"
    /\ lex.i < Len(lex.text)
    /\ lex.skipper > 0
    /\ lex' = [lex EXCEPT !.skipper = @ - 1, !.i = @ + 1]
    /\ UNCHANGED <<scopes, exports, break_num, continue_num, pc, tree, res, build>>

\* one turn of the for loop: the match on the letter at i and what follows it
LexLetter ==
    /\ lex.status = "lexing"
    /\ lex.i < Len(lex.text)
    /\ lex.skipper = 0
    /\ lex' = Letter(lex, CharAt(lex.text, lex.i))
    /\ UNCHANGED <<scopes, exports, break_num, continue_num, pc, tree, res, build>>

\* after the loop: the pending literal is pushed, and Ok(tokens)
LexReturn ==
    /\ lex.status = "lexing"
    /\ lex.i >= Len(lex.text)
    /\ lex' = [Flush(lex) EXCEPT !.status = "ok"]
    /\ UNCHANGED <<scopes, exports, break_num, continue_num, pc, tree, res, build>>

NextLex == LexSkip \/ LexLetter \/ LexReturn

SpecLex == InitLex /\ [][NextLex]_vars

(***************************************************************************)
(* What the history of the last call of exec_tree shows.  While pc is      *)
(* "report", exec_tree has returned (res.status is "ok" or "err"), tree is *)
(* the program it ran, res.trace the process events of the run in order,   *)
(* and scopes, break_num, continue_num are the Context it left behind.     *)
(***************************************************************************)
Returned == pc = "report"

Trace == res.trace

Idx == 1..Len(res.trace)

\* the i-th event is one of ops and is about the command named ch
Is(i, ops, ch) == Trace[i].op \in ops /\ Trace[i].name = <<ch>>

\* the command named ch was built (its expression was evaluated)
Evaluated(ch) == \E i \in Idx : Is(i, {"new"}, ch)

\* the first attempt to spawn ch gave a child that exited with a code in codes
Exited(ch, codes) ==
    \E i \in Idx :
        /\ Is(i, {"spawn"}, ch)
        /\ Trace[i].code \in codes
        /\ \A j \in 1..(i - 1) : ~Is(j, {"spawn", "spawn_err"}, ch)

\* the pids of the children spawned for ch
SpawnedPid(ch) == {Trace[i].pid : i \in {j \in Idx : Is(j, {"spawn"}, ch)}}

\* C1: once exec_tree has returned, with Ok or with an error, the scope
\* stack has length exactly 1.
C1_ScopeStackHasLengthOne == Returned => Len(scopes) = 1

\* C2: once exec_tree has returned, with Ok or with an error, break_num and
\* continue_num are 0, wherever the program's break statements stand.
C2_BreakCountersAreZero == Returned => break_num = 0 /\ continue_num = 0

\* C3: `break n` run under exactly n while loops ends the run of all of them
\* with break_num 0 and no error; run under more than n loops it ends the n
\* innermost ones, and the loop around them goes on iterating: its condition
\* is run again with break_num 0, and when that exits 0 its body is run
\* again (the loop inside it builds its condition anew).  The same with the
\* break in the body of an if.
C3_BreakEndsExactlyNLoops ==
    \A depth \in 1..MaxNest, n \in 1..MaxNest, inIf \in BOOLEAN :
        (Returned /\ tree = <<Nest(1, depth, n, inIf)>> /\ n <= depth) =>
            \A i \in Idx : Trace[i].op = "break" =>
                IF n = depth
                THEN i = Len(Trace) /\ res.status = "ok" /\ break_num = 0
                ELSE /\ i < Len(Trace)
                     /\ Is(i + 1, {"spawn", "spawn_err"}, LoopNames[depth - n])
                     /\ Trace[i + 1].bn = 0
                     /\ Trace[i + 1].op = "spawn" /\ Trace[i + 1].code = 0 =>
                            /\ i + 3 <= Len(Trace)
                            /\ Is(i + 3, {"new"}, LoopNames[depth - n + 1])

BlockOfIf == <<If(Cmd("a"), <<Cmd("b"), Cmd("c")>>, <<Cmd("d")>>)>>

BlockOfGroup == <<Group(<<Cmd("a"), Cmd("b")>>)>>

\* C4: in a block every expression is run in order: when the next expression
\* is evaluated, the process of the one before it has been spawned and
\* waited on (b before c in the body of `if a; b; c; else; d; end`, a before
\* b in the group `(a; b)`).
C4_BlockRunsEachExpression ==
    /\ (Returned /\ tree = BlockOfIf) =>
            \A i \in Idx : Is(i, {"new"}, "c") => \E j \in 1..(i - 1) : Is(j, {"wait"}, "b")
    /\ (Returned /\ tree = BlockOfGroup) =>
            \A i \in Idx : Is(i, {"new"}, "b") => \E j \in 1..(i - 1) : Is(j, {"wait"}, "a")

AndOfAX == <<And(Cmd("a"), Cmd("x"))>>

OrOfAX == <<Or(Cmd("a"), Cmd("x"))>>

\* C5: in `a && x`, x is evaluated if and only if a exited with code 0; in
\* `a || x`, x is evaluated if and only if a exited with a code other than
\* 0; either way a has been waited on before x is evaluated.
C5_AndOrFollowExitCode ==
    /\ (Returned /\ tree = AndOfAX) => (Evaluated("x") <=> Exited("a", {0}))
    /\ (Returned /\ tree = OrOfAX) => (Evaluated("x") <=> Exited("a", ExitCodes \ {0}))
    /\ (Returned /\ tree \in {AndOfAX, OrOfAX}) =>
            \A i \in Idx : Is(i, {"new"}, "x") => \E j \in 1..(i - 1) : Is(j, {"wait"}, "a")

PipeOfAB == <<Pipe(Cmd("a"), Cmd("b"))>>

\* C6: in `a | b`, when b is spawned, a has been spawned before it with its
\* stdout piped, b's stdin is that pipe, and nothing has been waited on yet.
C6_PipeSpawnsBothThenWaits ==
    (Returned /\ tree = PipeOfAB) =>
        \A k \in Idx : Is(k, {"spawn"}, "b") =>
            /\ \E i \in 1..(k - 1) :
                    /\ Is(i, {"spawn"}, "a")
                    /\ Trace[i].stdout = "piped"
                    /\ Trace[k].stdin = Trace[i].pid
            /\ \A j \in 1..(k - 1) : Trace[j].op # "wait"

PipeOfABC == <<Pipe(Cmd("a"), Pipe(Cmd("b"), Cmd("c")))>>

\* C7: in `a | b | c`, when all three stages have been spawned, b reads the
\* piped stdout of a and c reads the piped stdout of b.
C7_PipeStagesReadLeftNeighbour ==
    (Returned /\ tree = PipeOfABC /\ \A ch \in {"a", "b", "c"} : SpawnedPid(ch) # {}) =>
        \A k \in Idx :
            /\ Is(k, {"spawn"}, "a") => Trace[k].stdout = "piped"
            /\ Is(k, {"spawn"}, "b") => Trace[k].stdin \in SpawnedPid("a") /\ Trace[k].stdout = "piped"
            /\ Is(k, {"spawn"}, "c") => Trace[k].stdin \in SpawnedPid("b")

\* the last statement of the program is a plain command named ch
LastIsCommand(ch) ==
    /\ tree # <<>>
    /\ tree[Len(tree)].type = "Command"
    /\ tree[Len(tree)].vals[1] = Lit(<<ch>>)

\* the run ended with the wait on a child of the command named ch
EndsWithWaitOn(ch) == Trace # <<>> /\ Is(Len(Trace), {"wait"}, ch)

\* C8: when the command that is the last statement of the program has run
\* and exited with code c, exec_tree returns no error and `?` holds c, the
\* exit code of the last process waited on.
C8_ExitCodeIsRecorded ==
    \A ch \in {"a", "b"} :
        (Returned /\ LastIsCommand(ch) /\ EndsWithWaitOn(ch)) =>
            /\ res.status = "ok"
            /\ get_last_exit_code(World) = Trace[Len(Trace)].code

\* C8 happens: a top-level command has exited with a code other than 0
C8_CommandExitedNonZero ==
    /\ Returned
    /\ LastIsCommand("a")
    /\ EndsWithWaitOn("a")
    /\ Trace[Len(Trace)].code # 0
    /\ get_last_exit_code(World) # 0

\* C9: when the operating system fails to spawn a command, exec_tree returns
\* an error.
C9_SpawnFailureIsAnError ==
    (Returned /\ \E i \in Idx : Trace[i].op = "spawn_err") => res.status = "err"

\* C10: when exec_tree returns an error, the scope stack is as deep as it
\* was before the call: the scope pushed for an if body, a while body or a
\* command substitution has been popped.
C10_ScopePoppedOnError ==
    (Returned /\ res.status = "err") => Len(scopes) = res.pre_depth

IfElseOfABD == <<If(Cmd("a"), <<Cmd("b")>>, <<Cmd("d")>>)>>

\* C11: in `if a; b; else; d; end`, run with break_num 0, exactly one of the
\* branches is executed: b, and not d, when a exited with code 0; d, and not
\* b, when a exited with another code.  The branch is evaluated after the
\* condition has been built, spawned and waited on, and the command of the
\* branch is then run.  In `if a; b; c; else; d; end` likewise: b and c are
\* evaluated and d is not when a exited 0, d is evaluated and b and c are
\* not when a exited with another code.
C11_IfRunsExactlyOneBranch ==
    /\ (Returned /\ tree = IfElseOfABD /\ res.pre_bn = 0) =>
            /\ Evaluated("a")
            /\ Evaluated("b") # Evaluated("d")
            /\ Exited("a", {0}) => Evaluated("b")
            /\ Exited("a", ExitCodes \ {0}) => Evaluated("d")
            /\ \A i \in Idx : \A ch \in {"b", "d"} :
                    Is(i, {"new"}, ch) =>
                        /\ \E j \in 1..(i - 1) : Is(j, {"new"}, "a")
                        /\ \E j \in 1..(i - 1) : Is(j, {"wait", "spawn_err"}, "a")
                        /\ i < Len(Trace) /\ Is(i + 1, {"spawn", "spawn_err"}, ch)
    /\ (Returned /\ tree = BlockOfIf /\ res.pre_bn = 0) =>
            /\ Exited("a", {0}) => Evaluated("b") /\ Evaluated("c") /\ ~Evaluated("d")
            /\ Exited("a", ExitCodes \ {0}) => Evaluated("d") /\ ~Evaluated("b") /\ ~Evaluated("c")
            /\ \A i \in Idx : \A ch \in {"b", "c", "d"} :
                    Is(i, {"new"}, ch) => \E j \in 1..(i - 1) : Is(j, {"wait", "spawn_err"}, "a")

\* C11 happens: the condition exited with a code other than 0 and the else
\* branch was run
C11_ElseBranchWasRun ==
    /\ Returned
    /\ tree = IfElseOfABD
    /\ Exited("a", ExitCodes \ {0})
    /\ \E i \in Idx : Is(i, {"wait"}, "d")

WhileOfAB == <<While(Cmd("a"), <<Cmd("b")>>)>>

WhileOfLet == <<While(Command(<<Lit(<<"a">>), Variable(<<"v">>)>>), <<Let(Lit(<<"v">>), Lit(<<"x">>))>>)>>

\* C12: a while loop evaluates its condition anew before every iteration.
\* In `while a; b; end` the body is evaluated only right after a run of the
\* condition that exited 0.  In `while a $v; let v = x; end`, after a run of
\* the condition that exited 0 and the iteration that follows it, the
\* condition is built again, with the argument x that v holds by then, and
\* it is that command that is run next.
C12_WhileEvaluatesConditionAgain ==
    /\ (Returned /\ tree = WhileOfAB) =>
            \A i \in Idx :
                Is(i, {"new"}, "b") => i > 1 /\ Is(i - 1, {"wait"}, "a") /\ Trace[i - 1].code = 0
    /\ (Returned /\ tree = WhileOfLet) =>
            \A i \in Idx :
                (Is(i, {"wait"}, "a") /\ Trace[i].code = 0) =>
                    /\ i + 2 <= Len(Trace)
                    /\ Is(i + 1, {"new"}, "a") /\ Trace[i + 1].args = <<(<<"x">>)>>
                    /\ Is(i + 2, {"spawn", "spawn_err"}, "a") /\ Trace[i + 2].args = <<(<<"x">>)>>

ForProgram == <<For>>

\* C13: the execution of a for expression completes: exec_tree returns to
\* the shell, with a result or with an error value, after running the body
\* once per element or the else body for an empty list.
C13_ForCompletes == tree = ForProgram => pc \in {"exec", "report"}

\* C14: after `let x = "s"` has run, the command `a $x` that follows it, on
\* the same level or in the body of an if, is built with exactly s as its
\* one argument, whatever x and the scopes were before; and it is built
\* whenever it is reached (always on the same level, and in the body of
\* `if t` when t exited 0).
C14_LetThenReadGivesTheString ==
    \A s \in LetStrings :
        /\ (Returned /\ tree \in {LetThenUse(s), LetThenUseNested(s)}) =>
                \A i \in Idx : Is(i, {"new"}, "a") => Trace[i].args = <<s>>
        /\ (Returned /\ tree = LetThenUse(s)) => Evaluated("a")
        /\ (Returned /\ tree = LetThenUseNested(s) /\ Exited("t", {0})) => Evaluated("a")

\* C14 happens: x held another string in an outer scope before, and the
\* command in the body of the if was built
C14_ReadInNestedScope ==
    /\ Returned
    /\ tree = LetThenUseNested(<<"s", " ", "t">>)
    /\ Len(scopes) = 2
    /\ HasVar([World EXCEPT !.scopes = <<scopes[1]>>], <<"x">>)
    /\ get_var([World EXCEPT !.scopes = <<scopes[1]>>], <<"x">>) = VString(<<"s">>)
    /\ \E i \in Idx : Is(i, {"new"}, "a") /\ Trace[i].depth = 3

WordOfFragments == <<Command(<<Lit(<<"a">>), Values(<<Lit(<<"f">>), Variable(<<"u">>), Lit(<<"g">>)>>)>>)>>

\* C15: the word f$u"g" of the command `a f$u"g"`, u being unset, evaluates
\* to the concatenation of its fragments with nothing between them: the
\* command is built with the one argument fg.
C15_WordIsConcatenation ==
    (Returned /\ tree = WordOfFragments) =>
        \A i \in Idx : Is(i, {"new"}, "a") => Trace[i].args = <<(<<"f", "g">>)>>

WhileOfABX == <<While(Cmd("a"), <<Command(<<Lit(<<"b">>), Lit(<<"x">>)>>)>>)>>

\* C16: executing a command leaves its AST node as it was: in
\* `while a; b x; end` every evaluation of the body, the first and the later
\* ones, builds the command b with the one argument x.
C16_CommandNodeIsNotModified ==
    (Returned /\ tree = WhileOfABX) =>
        /\ res.status = "ok"
        /\ \A i \in Idx :
                (Trace[i].op = "new" /\ Trace[i].name # <<"a">>) =>
                    Trace[i].name = <<"b">> /\ Trace[i].args = <<(<<"x">>)>>

(***************************************************************************)
(* What build_tree made of a line.  Once build.status is no longer         *)
(* "building", build_tree has returned: build.tokens is the line it was    *)
(* given and build.expressions the tree it built.                          *)
(***************************************************************************)
Built == build.status # "building"

\* the tokens of `A o1 B`, A and B of w1 and w2 words, with a Space before
\* (b1) and after (a1) the operator, ended by e
Line2(o1, w1, w2, b1, a1, e) ==
    StageTokens(1, w1) \o Joint(o1, b1, a1) \o StageTokens(2, w2) \o e

\* the tokens of `A o1 B o2 C`
Line3(o1, o2, w1, w2, w3, b1, a1, b2, a2, e) ==
    StageTokens(1, w1) \o Joint(o1, b1, a1) \o StageTokens(2, w2)
        \o Joint(o2, b2, a2) \o StageTokens(3, w3) \o e

Separator == <<CommandEnd(";")>>

\* C17: the tokens of the pipeline `A | B | C` followed by a command
\* separator, each `|` with or without a Space token on either side and the
\* separator with or without a Space token before it, are built into the one
\* expression Pipe(A, Pipe(B, C)), A, B and C being the Command nodes of
\* exactly their own words.
C17_PipelineIsRightLeaning ==
    \A w1, w2, w3 \in 1..MaxWords, b1, a1, b2, a2 \in BOOLEAN, e \in LineEnds \ {<<>>} :
        (Built /\ build.tokens = Line3("RedirectInto", "RedirectInto", w1, w2, w3, b1, a1, b2, a2, e)) =>
            /\ build.status = "ok"
            /\ build.expressions =
                    <<Pipe(StageCommand(1, w1), Pipe(StageCommand(2, w2), StageCommand(3, w3)))>>

\* C18: with a Space on either side of each operator and the separator right
\* after C, `A | B && C` is built as And(Pipe(A, B), C) and `A && B || C` as
\* Or(And(A, B), C).
C18_TighterOperatorBindsFirst ==
    \A w1, w2, w3 \in 1..MaxWords :
        /\ (Built /\ build.tokens = Line3("RedirectInto", "And", w1, w2, w3, TRUE, TRUE, TRUE, TRUE, Separator)) =>
                /\ build.status = "ok"
                /\ build.expressions =
                        <<And(Pipe(StageCommand(1, w1), StageCommand(2, w2)), StageCommand(3, w3))>>
        /\ (Built /\ build.tokens = Line3("And", "Or", w1, w2, w3, TRUE, TRUE, TRUE, TRUE, Separator)) =>
                /\ build.status = "ok"
                /\ build.expressions =
                        <<Or(And(StageCommand(1, w1), StageCommand(2, w2)), StageCommand(3, w3))>>

\* C19: the tokens of `A > b` (`A < b`) followed by a separator, with or
\* without a Space token between the last word of A and the redirection
\* token, are built into the FileTargetExpression (FileSourceExpression)
\* whose source (target) is the command A and whose target (source) is b.
C19_RedirectionTakesTheCommand ==
    \A w1 \in 1..MaxWords, b1, a1 \in BOOLEAN :
        /\ (Built /\ build.tokens = Line2("FileWrite", w1, 1, b1, a1, Separator)) =>
                /\ build.status = "ok"
                /\ build.expressions = <<FileTarget(SomeExpr(StageCommand(1, w1)), Lit(StageWord(2, 1)))>>
        /\ (Built /\ build.tokens = Line2("FileRead", w1, 1, b1, a1, Separator)) =>
                /\ build.status = "ok"
                /\ build.expressions = <<FileSource(Lit(StageWord(2, 1)), SomeExpr(StageCommand(1, w1)))>>

\* the lexer is about to take the letter c, inside single quotes
InQuoteAt(c) ==
    /\ lex.status = "lexing"
    /\ lex.quote_active
    /\ lex.skipper = 0
    /\ HasChar(lex.text, lex.i)
    /\ CharAt(lex.text, lex.i) = c

\* C20: inside single quotes every character but the closing quote, the
\* backslash included, is appended unchanged to the literal buffer, pushes no
\* token, and leaves the escape flag and the double-quote flag as they were.
C20_SingleQuotesTakeEveryCharacterLiterally ==
    [][\A c \in LexChars \ {Quote} :
          InQuoteAt(c) =>
              /\ lex'.status = "lexing"
              /\ lex'.quote_active
              /\ lex'.buf = Append(lex.buf, c)
              /\ lex'.tokens = lex.tokens
              /\ lex'.escape_active = lex.escape_active
              /\ lex'.double_quote_active = lex.double_quote_active]_vars

\* the lexer, outside single quotes, has come to the letter c of the text
OutsideQuoteAt(c) ==
    /\ lex.status = "lexing"
    /\ ~lex.quote_active
    /\ HasChar(lex.text, lex.i)
    /\ CharAt(lex.text, lex.i) = c

\* C21: outside single quotes a backslash that is not itself escaped is not
\* appended to the literal buffer, pushes no token and escapes the next
\* character; an escaped character, whatever it is, is appended to the literal
\* buffer, pushes no token, toggles no quote, and ends the escape.
C21_BackslashEscapesTheNextCharacter ==
    [][/\ (OutsideQuoteAt(Backslash) /\ ~lex.escape_active) =>
              /\ lex'.status = "lexing"
              /\ lex'.escape_active
              /\ lex'.buf = lex.buf
              /\ lex'.tokens = lex.tokens
       /\ (lex.status = "lexing" /\ ~lex.quote_active /\ lex.escape_active
                /\ HasChar(lex.text, lex.i)) =>
              /\ lex'.status = "lexing"
              /\ ~lex'.escape_active
              /\ lex'.buf = Append(lex.buf, CharAt(lex.text, lex.i))
              /\ lex'.tokens = lex.tokens
              /\ lex'.quote_active = lex.quote_active
              /\ lex'.double_quote_active = lex.double_quote_active]_vars

\* tokenize has returned or panicked
Lexed == lex.status \in {"ok", "panic"}

\* the token tok is among the tokens
TokensHave(tok) == \E n \in 1..Len(lex.tokens) : lex.tokens[n] = tok

\* C22: a keyword standing alone outside quotes (at the start of the text,
\* after a space or after a separator; at the end of the text, before a
\* space or before a separator) lexes to its own keyword token: if to If,
\* else to Else, end to End, let to Let, while to While and for to For.
C22_KeywordLexesToItsToken ==
    \A b \in Befores, k \in Keywords, a \in Afters :
        (Lexed /\ lex.text = b \o k \o a) =>
            /\ lex.status = "ok"
            /\ TokensHave(detect(k))
            /\ ~TokensHave(TLit(k))

\* C23: an unbraced `$name(` outside double quotes lexes to
\* StringFunction(name) and `@name(` to ArrayFunction(name), and no
\* ParenthesisStart token follows.
C23_NameAndParenthesisIsAFunction ==
    \A c \in VarCases :
        (/\ Lexed
         /\ lex.text = VarText(c)
         /\ ~c.braced /\ ~c.q /\ c.pre # <<DoubleQuote>>
         /\ c.post = <<"(", ")", ";">>) =>
            /\ lex.status = "ok"
            /\ TokensHave(IF c.sigil = "$" THEN StringFunction(c.name) ELSE ArrayFunction(c.name))
            /\ ~TokensHave(Op("ParenthesisStart"))

\* C24: `$name` and `${name}` lex to StringVariable(name, braced), the name
\* being the run of name characters and one final `?` if there is one,
\* wherever the reference stands, the very end of the text included.
C24_ReferenceLexesToStringVariable ==
    \A c \in VarCases :
        (/\ Lexed
         /\ lex.text = VarText(c)
         /\ c.sigil = "$"
         /\ c.post # <<"(", ")", ";">>) =>
            /\ lex.status = "ok"
            /\ TokensHave(StringVariable(RefName(c), c.braced))

\* the literal of the text str, if it is not empty
LiteralOf(str) == IF str = <<>> THEN <<>> ELSE <<TLit(str)>>

\* C25: a run of separators (`;`, newline, carriage return) outside quotes
\* flushes the pending literal and gives one CommandEnd token, which carries
\* the first character of the run.
C25_SeparatorRunIsOneCommandEnd ==
    \A pre \in {<<>>, <<"a">>}, r \in SeparatorRuns, post \in {<<>>, <<"b">>} :
        (Lexed /\ lex.text = pre \o r \o post) =>
            /\ lex.status = "ok"
            /\ lex.tokens = LiteralOf(pre) \o <<CommandEnd(r[1])>> \o LiteralOf(post)

\* C26: when a braced variable has an invalid character before its closing
\* brace, tokenize returns an error to its caller: it does not panic and it
\* returns no tokens.
C26_InvalidBracedNameIsAnError ==
    (Lexed /\ lex.text \in BadBraceTexts) => lex.status = "err"

\* exec_tree has returned or the shell was aborted by a panic
Ended == pc \in {"report", "aborted"}

\* how many events of the history are one of ops and about the command ch
Count(ops, ch) == Cardinality({i \in Idx : Is(i, ops, ch)})

\* C27: when the target of `a > path` cannot be created, or the source of
\* `a < path` cannot be opened, exec_tree returns an error and a is not run;
\* `> path` with no source command returns an error too.
C27_FileFailureIsAnError ==
    \A path \in Paths :
        /\ (Ended /\ tree = <<WriteTo(path)>> /\ ~CanCreate(path)) =>
                res.status = "err" /\ Count({"spawn", "spawn_err"}, "a") = 0
        /\ (Ended /\ tree = <<ReadFrom(path)>> /\ ~CanOpen(path)) =>
                res.status = "err" /\ Count({"spawn", "spawn_err"}, "a") = 0
        /\ (Ended /\ tree = <<FileTarget(NoExpr, Lit(path))>>) => res.status = "err"

\* C30: a command is spawned once for each time it is evaluated.  In
\* `a && b`, `a || b` and `a > path` the command a, evaluated once, is
\* spawned once, also when b is not evaluated; in `while a; b; end` whose
\* first run of a exits with a code other than 0, a is spawned that once.
C30_SpawnedOncePerEvaluation ==
    /\ (Returned /\ tree \in {<<And(Cmd("a"), Cmd("b"))>>, <<Or(Cmd("a"), Cmd("b"))>>}) =>
            Count({"spawn", "spawn_err"}, "a") = Count({"new"}, "a")
    /\ \A path \in Paths :
            (Returned /\ tree = <<WriteTo(path)>> /\ CanCreate(path)) =>
                Count({"spawn", "spawn_err"}, "a") = Count({"new"}, "a")
    /\ (Returned /\ tree = <<While(Cmd("a"), <<Cmd("b")>>)>> /\ Exited("a", 1..MaxExitCode)) =>
            Count({"spawn", "spawn_err"}, "a") = 1

\* the outermost scope binds name to val
Holds(scps, name, val) == name \in DOMAIN scps[1].vars /\ scps[1].vars[name] = val

\* C28: the call of a required built-in n under the name "$" + n, with
\* arguments n accepts, finds the native function n: exec_tree returns no
\* error and r is bound to the function's result; only the call of a name
\* with no such function is the error `Function ... not found`.
C28_BuiltinIsFoundUnderDollarName ==
    /\ \A n \in Builtins :
            (Returned /\ tree = CallLine(Dollar(n), GoodArgs(n))) =>
                res.status = "ok" /\ Result \in DOMAIN scopes[1].vars
    /\ (Returned /\ tree = CallLine(Dollar(<<"n", "o">>), <<>>)) => res.status = "err"

\* C29: export mirrors into exports.  `export x = v` leaves exports[x] = v;
\* `export x` with x bound leaves exports[x] = the value of x; with x unbound
\* it returns I32(1) and exports is unchanged; with any other number of
\* arguments it is an error and exports is unchanged.
C29_ExportMirrorsIntoExports ==
    [][/\ \A v \in ExportValues :
              (pc = "exec" /\ tree = ExportLine(<<Lit(X), Lit(<<"=">>), Lit(v)>>)) =>
                  /\ res'.status = "ok"
                  /\ X \in DOMAIN exports' /\ exports'[X] = VString(v)
       /\ (pc = "exec" /\ tree = ExportLine(<<Lit(X)>>) /\ X \in DOMAIN scopes[1].vars) =>
              /\ res'.status = "ok"
              /\ X \in DOMAIN exports' /\ exports'[X] = scopes[1].vars[X]
       /\ (pc = "exec" /\ tree = ExportLine(<<Lit(X)>>) /\ X \notin DOMAIN scopes[1].vars) =>
              /\ res'.status = "ok"
              /\ Holds(scopes', Result, VI32(1))
              /\ exports' = exports
       /\ \A args \in ExportArgs :
              (pc = "exec" /\ tree = ExportLine(args) /\ Len(args) \notin {1, 3}) =>
                  res'.status = "err" /\ exports' = exports]_vars

(***************************************************************************)
(* Variables in the stack of scopes (SpecScope).  A step from pc = "exec"  *)
(* is the run of the line in tree: the unprimed variables are the context  *)
(* before it, the primed ones the context after it.                        *)
(***************************************************************************)
Innermost == Len(scopes)

\* the scopes that bind name before the line, and the innermost of them
Binders(name) == {i \in 1..Len(scopes) : name \in DOMAIN scopes[i].vars}

InnermostBinder(name) == CHOOSE i \in Binders(name) : \A j \in Binders(name) : j <= i

\* m is the map old with val under name and nothing else changed
Inserted(m, old, name, val) ==
    /\ DOMAIN m = DOMAIN old \cup {name}
    /\ m[name] = val
    /\ \A n \in DOMAIN old \ {name} : m[n] = old[n]

\* C31: `let k = v` inserts the binding of k to the value of v into the vars
\* of the innermost scope and leaves every outer scope as it was, whether or
\* not one of them binds k; when k starts with env:: the value as a string is
\* stored in exports under k without the prefix, else exports is unchanged
C31_LetWritesInnermostScopeOnly ==
    [][\A c \in LetCases :
          (pc = "exec" /\ tree = LetLine(c)) =>
              /\ Len(scopes') = Len(scopes)
              /\ \A i \in 1..(Len(scopes) - 1) : scopes'[i] = scopes[i]
              /\ Inserted(scopes'[Innermost].vars, scopes[Innermost].vars, c.key, c.val)
              /\ scopes'[Innermost].func = scopes[Innermost].func
              /\ IF StartsWith(c.key, EnvPrefix)
                 THEN Inserted(exports', exports, <<"y">>, VString(c.str))
                 ELSE exports' = exports]_vars

\* C31 happens: `let x = b` has run in an inner scope while the outer scope
\* binds x to a, and the outer binding is still there
C31_LetShadowsOuterBinding ==
    /\ Returned
    /\ tree = <<LetOf(X, Lit(<<"b">>))>>
    /\ Len(scopes) = 2
    /\ X \in DOMAIN scopes[1].vars
    /\ scopes[1].vars[X] = VString(<<"a">>)
    /\ X \in DOMAIN scopes[2].vars
    /\ scopes[2].vars[X] = VString(<<"b">>)

\* what a read of name gives before the line: the value in exports for a
\* name that starts with env::, else the binding of the innermost scope that
\* binds it, and default when there is none
ReadOf(name, default) ==
    IF StartsWith(name, EnvPrefix)
    THEN IF <<"y">> \in DOMAIN exports THEN exports[<<"y">>] ELSE default
    ELSE IF Binders(name) = {} THEN default
    ELSE scopes[InnermostBinder(name)].vars[name]

\* C32: `let r = $n` binds r to the binding of n in the innermost scope that
\* binds n and to the empty string when no scope binds n, `let r = @n` to the
\* empty array when no scope binds n; env::y is read from exports alone, also
\* when a scope binds the name env::y
C32_ReadGivesInnermostBinding ==
    [][\A n \in ReadNames :
          /\ (pc = "exec" /\ tree = ReadLine(n)) =>
                 /\ Result \in DOMAIN scopes'[Innermost].vars
                 /\ scopes'[Innermost].vars[Result] = ReadOf(n, VString(<<>>))
          /\ (pc = "exec" /\ tree = ReadArrayLine(n)) =>
                 /\ Result \in DOMAIN scopes'[Innermost].vars
                 /\ scopes'[Innermost].vars[Result] = ReadOf(n, VArray(<<>>))]_vars

\* C32 happens: x is bound to a in the outer scope and to b in the inner one,
\* and `let r = $x` has bound r to b
C32_ReadOfShadowedName ==
    /\ Returned
    /\ tree = ReadLine(X)
    /\ Len(scopes) = 2
    /\ X \in DOMAIN scopes[1].vars
    /\ scopes[1].vars[X] = VString(<<"a">>)
    /\ X \in DOMAIN scopes[2].vars
    /\ scopes[2].vars[X] = VString(<<"b">>)
    /\ Result \in DOMAIN scopes[2].vars
    /\ scopes[2].vars[Result] = VString(<<"b">>)

(***************************************************************************)
(* break_num (Spec).  A step from pc = "exec" is the run of the line in    *)
(* tree: break_num is the counter before it, break_num' the one after it.  *)
(***************************************************************************)
\* the arguments of `break` and the number each one is: -1 stands for the
\* absent argument, -2 for an argument that is not an unsigned number
BreakCases ==
    {[arg |-> <<>>, n |-> -1], [arg |-> <<"0">>, n |-> 0], [arg |-> <<"2">>, n |-> 2],
     [arg |-> <<"+", "2">>, n |-> 2], [arg |-> <<"x">>, n |-> -2],
     [arg |-> NatToStr(U16Max + 1), n |-> U16Max + 1]}

\* the break of the line set break_num
BreakWasSet == \E i \in DOMAIN res'.trace : res'.trace[i].op = "break"

\* the break of the line failed and left break_num alone
BreakFailed ==
    /\ res'.status = "err"
    /\ ~BreakWasSet
    /\ break_num' = break_num

\* C33 as amended: `break` with break_num = 0 sets break_num to 1 when the
\* argument is absent or 0 and to n when it is a number n from 1 to 65535; an
\* argument that is not an unsigned number, or is one above 65535, yields an
\* error and leaves break_num as it was
C33_BreakSetsBreakNumUpToU16 ==
    [][\A c \in BreakCases :
          (pc = "exec" /\ tree = <<Break(c.arg)>> /\ break_num = 0) =>
              IF c.n \in {-1, 0} THEN BreakWasSet /\ break_num' = 1
              ELSE IF c.n \in 1..U16Max THEN BreakWasSet /\ break_num' = c.n
              ELSE BreakFailed]_vars

\* C33 happens: `break 2` has run with break_num = 0 and has set it to 2
C33_BreakTwoHasRun ==
    /\ Returned
    /\ tree = <<Break(<<"2">>)>>
    /\ res.pre_bn = 0
    /\ break_num = 2

\* C33 as stated: `break` with break_num = 0 sets break_num to 1 when the
\* argument is absent or 0 and to n when it is any number n > 0; an argument
\* that is not an unsigned number yields an error and leaves break_num alone
C33_BreakSetsBreakNum ==
    [][\A c \in BreakCases :
          (pc = "exec" /\ tree = <<Break(c.arg)>> /\ break_num = 0) =>
              IF c.n \in {-1, 0} THEN BreakWasSet /\ break_num' = 1
              ELSE IF c.n > 0 THEN BreakWasSet /\ break_num' = c.n
              ELSE BreakFailed]_vars

\* the expressions of Statements that are not loops
NonLoops == {st \in Statements : st.type \notin {"WhileExpression", "ForExpression"}}

\* the run of the line built and spawned nothing and set no variable
NothingWasDone ==
    /\ res'.status # "panic"
    /\ res'.trace = <<>>
    /\ scopes' = scopes
    /\ exports' = exports

\* C34: with break_num > 0 an expression that is not a loop (a command, if,
\* pipe, &&, ||, block or break) builds and spawns nothing, sets no variable
\* and leaves break_num as it was, and a while loop builds and spawns
\* nothing, sets no variable and takes exactly one off break_num
C34_BrokenOutExpressionsDoNothing ==
    [][/\ \A st \in NonLoops :
             (pc = "exec" /\ tree = <<st>> /\ break_num > 0) =>
                 NothingWasDone /\ break_num' = break_num
       /\ \A st \in Statements :
             (pc = "exec" /\ tree = <<st>> /\ break_num > 0 /\ st.type = "WhileExpression") =>
                 NothingWasDone /\ break_num' = break_num - 1]_vars

(***************************************************************************)
(* let, if, while, for and parentheses in build_tree (SpecParse).          *)
(***************************************************************************)
HasExportSet(l) == \E x \in DOMAIN l : l[x].t = "ExportSet"

\* C35: parse_let returns an error when fewer than two tokens follow Let
\* before end (none in `a |let`, one in the lines of Let and one token), and
\* a let line without `=` is never read past its last token
C35_ShortLetIsAnError ==
    /\ (Built /\ build.tokens = PipeIntoLet) => build.status = "err"
    /\ \A tk \in TokenKinds :
          (Built /\ build.tokens = <<Op("Let"), tk>>) => build.status = "err"
    /\ \A l \in LetTokenLines :
          (Built /\ build.tokens = l /\ ~HasExportSet(l)) => build.status # "panic"

\* the lines that start with End, Else or a binary operator
BadStarts ==
    {l \in ShortLines :
        Len(l) >= 2 /\ l[1].t \in {"End", "Else", "RedirectInto", "And", "Or"}}

\* the statements whose End is missing
Unclosed ==
    {ForTokens(h, c) : h \in {<<<<"v">>, In, <<"l">>>>}, c \in Closings \ {<<Op("End"), CommandEnd(NewLine)>>}}
    \cup {CondTokens(kw, c) : kw \in {"If", "While"}, c \in Closings \ {<<Op("End"), CommandEnd(NewLine)>>}}

\* C36: build_tree returns a tree or an error of every token sequence, the
\* empty one too: it never reads a token that is not there, never loops
\* without end, its index never exceeds the number of tokens, and a line
\* with an unclosed parenthesis, a line that starts with End, Else or a
\* binary operator, and an if, while or for without End give an error
C36_BuildTreeReturnsTreeOrError ==
    /\ build.status \in {"building", "ok", "err"}
    /\ build.i <= Len(build.tokens)
    /\ \A l \in {ParenTokens(FALSE)} \cup BadStarts \cup Unclosed :
          (Built /\ build.tokens = l) => build.status = "err"

\* the ForExpression of the line is built with key and value
ForIsBuilt(key, value) ==
    /\ build.status = "ok"
    /\ Len(build.expressions) = 1
    /\ build.expressions[1].type = "ForExpression"
    /\ build.expressions[1].arg_key = key
    /\ build.expressions[1].arg_value = value

\* C37: `for v in l` builds a ForExpression with arg_value v and no arg_key,
\* `for k v in l` one with arg_key k and arg_value v, and `for k v l`, the
\* two names not followed by in, is an error
C37_ForBindsKeyAndValue ==
    \A c \in Closings :
        /\ (Built /\ build.tokens = ForTokens(<<<<"v">>, In, <<"l">>>>, c)) =>
               ForIsBuilt(None, Lit(<<"v">>))
        /\ (Built /\ build.tokens = ForTokens(<<<<"k">>, <<"v">>, In, <<"l">>>>, c)) =>
               ForIsBuilt(SomeValue(Lit(<<"k">>)), Lit(<<"v">>))
        /\ (Built /\ build.tokens = ForTokens(<<<<"k">>, <<"v">>, <<"l">>>>, c)) =>
               build.status = "err"

\* the token of the character that ends a word, none at the end of the text
EndToken(e) == IF e = <<>> THEN <<>> ELSE <<detect(e)>>

\* C38: a keyword token is given only for a whole word that is the keyword,
\* and the keyword takes its own characters and no more: life, send and
\* outlet lex to one Literal each, and the space, `;` or newline after a word
\* or after a keyword (if, else, end, let, while) gives its own Space or
\* CommandEnd token
C38_KeywordIsAWholeWord ==
    /\ \A w \in Words, e \in WordEnds :
          (Lexed /\ lex.text = w \o e) =>
              lex.status = "ok" /\ lex.tokens = <<TLit(w)>> \o EndToken(e)
    /\ \A k \in Keywords \ {<<"f", "o", "r">>}, e \in WordEnds \ {<<>>} :
          (Lexed /\ lex.text = k \o e) =>
              lex.status = "ok" /\ lex.tokens = <<detect(k)>> \o EndToken(e)

====
